---- MODULE Spec2Model ----
(***************************************************************************)
(* A model of the descriptor / validation / filter engine of               *)
(* mongodb-graphql: the predicate compiler toMongoFilter (src/src/filter.ts),*)
(* the validation-rule transformer convertForUpdate (validation.ts) and    *)
(* the record composer createObject (types.ts).                            *)
(***************************************************************************)
EXTENDS Integers, Sequences, FiniteSets, TLC

VARIABLES
    request,      \* the filter value handed to toMongoFilter
    outcome,      \* "pending" before the call, then "ok" or the error thrown
    predicate,    \* the predicate toMongoFilter returned (key/value entries)
    schema,       \* the validation schema handed to convertForUpdate
    vpc,          \* "start", "once" (one pass done), "twice" (two passes done)
    converted,    \* convertForUpdate(schema)
    reconverted,  \* convertForUpdate(convertForUpdate(schema))
    design,       \* the declared fields of the record: what the build script writes
    layout,       \* the field descriptors built from it: the `item` of createObject
    tpc,          \* "layout" before the composition, then "object" or "args"
    record,       \* the record descriptor createObject returned
    handed,       \* the options handed to the composer with the layout
    heap,         \* the JavaScript objects and arrays of the descriptors, by address
    descs,        \* the descriptor instances, by identity
    members,      \* the layout handed to createObject: field name and descriptor
    rec,          \* the identity of the composed record descriptor, 0 before
    nullableCall, \* the last GqlNullable call: argument, value returned, the argument
                  \* of the call before it, number of calls
    accesses,     \* per getter: number of accesses, the first and the last value
                  \* returned, and the number of GqlNullable calls before each
    runs,         \* how often validation / updateValidation were computed
    snapshot,     \* the heap at composition and around convertForUpdate
    calls,        \* the toMongoFilter calls in progress: argument, accumulator, position
    entity,       \* the GraphQL object type handed to createObjectFilter
    grammar,      \* the filter descriptor createObjectFilter returned, Undef before
    methods,      \* _methods: the registration entered under each name, 0 for none
    proxies,      \* every registration _register created, in order of creation
    invocation,   \* the last call of a resolver: arguments, violations, handler run
    store,        \* the documents of the collection
    hooks,        \* the hooks the derived collection class defines
    operation,    \* the last operation served: arguments, store accesses, result
    served        \* the number of operations served

recordVars == <<heap, descs, members, rec, nullableCall, accesses, runs, snapshot>>

callVars == <<calls>>
grammarVars == <<entity, grammar>>
methodVars == <<methods, proxies, invocation>>

collectionVars == <<store, hooks, operation, served>>

extVars == <<recordVars, callVars, grammarVars, methodVars, collectionVars>>

vars ==
    <<request, outcome, predicate, schema, vpc, converted, reconverted,
      design, layout, tpc, record, handed, extVars>>

filterVars == <<request, outcome, predicate>>
validationVars == <<schema, vpc, converted, reconverted>>
typeVars == <<design, layout, tpc, record, handed>>

(***************************************************************************)
(* JavaScript values.  An object is the sequence of its own enumerable     *)
(* string-keyed properties in insertion order, which is the order          *)
(* Object.keys reports.                                                    *)
(***************************************************************************)
Undef == [t |-> "undefined"]
Null == [t |-> "null"]
JBool(b) == [t |-> "bool", b |-> b]
JNum(n) == [t |-> "num", n |-> n]
JStr(s) == [t |-> "str", s |-> s]
JList(items) == [t |-> "list", items |-> items]
JObj(kv) == [t |-> "obj", kv |-> kv]
KV(k, v) == [k |-> k, v |-> v]
EmptyObj == JObj(<<>>)

\* The property name of an array index (or of a position in a string).
IdxKey(i) == <<"0", "1", "2", "3", "4", "5", "6", "7">>[i + 1]

\* ToBoolean(v): what `v || d` and `!v` test.
Truthy(v) ==
    CASE v.t = "undefined" -> FALSE
      [] v.t = "null" -> FALSE
      [] v.t = "bool" -> v.b
      [] v.t = "num" -> v.n # 0
      [] v.t = "str" -> Len(v.s) > 0
      [] OTHER -> TRUE

\* v || d
OrElse(v, d) == IF Truthy(v) THEN v ELSE d

\* Object.keys(v) for a value that is neither null nor undefined.
Keys(v) ==
    CASE v.t = "obj" -> [i \in 1..Len(v.kv) |-> v.kv[i].k]
      [] v.t = "list" -> [i \in 1..Len(v.items) |-> IdxKey(i - 1)]
      [] v.t = "str" -> [i \in 1..Len(v.s) |-> IdxKey(i - 1)]
      [] OTHER -> <<>>

HasKey(v, key) == \E i \in 1..Len(Keys(v)) : Keys(v)[i] = key

KeyPos(v, key) == CHOOSE i \in 1..Len(Keys(v)) : Keys(v)[i] = key

\* v[key] for a value that is neither null nor undefined.
Get(v, key) ==
    IF ~HasKey(v, key) THEN Undef
    ELSE CASE v.t = "obj" -> v.kv[KeyPos(v, key)].v
           [] v.t = "list" -> v.items[KeyPos(v, key)]
           [] v.t = "str" -> JStr(SubSeq(v.s, KeyPos(v, key), KeyPos(v, key)))
           [] OTHER -> Undef

\* o[key] = val on an object: an existing property keeps its position.
Put(o, key, val) ==
    IF HasKey(o, key)
    THEN JObj([i \in 1..Len(o.kv) |-> IF o.kv[i].k = key THEN KV(key, val) ELSE o.kv[i]])
    ELSE JObj(Append(o.kv, KV(key, val)))

(***************************************************************************)
(* toMongoFilter (src/src/filter.ts).  A call yields either the            *)
(* accumulator it wrote to or the error it threw.  `room` is the number of *)
(* call frames left on the stack: a call made with none left throws        *)
(* RangeError, as the engine does on unbounded recursion.                  *)
(***************************************************************************)
StackLimit == 10

Ok(f) == [err |-> "none", filter |-> f]
Thrown(e) == [err |-> e, filter |-> EmptyObj]

\* The operator table of the switch: the key written for each operation.
MongoOp(op) ==
    CASE op = "Exists" -> "$exists"
      [] op = "Eq" -> "$eq"
      [] op = "Neq" -> "$ne"
      [] op = "Lt" -> "$lt"
      [] op = "Lte" -> "$lte"
      [] op = "Gt" -> "$gt"
      [] op = "Gte" -> "$gte"
      [] op = "In" -> "$in"
      [] op = "Nin" -> "$nin"
      [] op = "RegEx" -> "$regex"
      [] OTHER -> ""

\* The cases of the switch without the one for the pattern match.
KnownOpsStandard == {"Exists", "Eq", "Neq", "Lt", "Lte", "Gt", "Gte", "In", "Nin"}

KnownOps == {"Exists", "Eq", "Neq", "Lt", "Lte", "Gt", "Gte", "In", "Nin", "RegEx"}

\* ApplyOp forgetting the operators translated before (fieldFilter replaced).
ApplyOpLast(fieldFilter, op, value) ==
    CASE op = "Exists" -> Put(EmptyObj, "$exists", JBool(value # JBool(FALSE)))
      [] op \in {"In", "Nin"} -> Put(EmptyObj, MongoOp(op), OrElse(value, JList(<<>>)))
      [] op = "RegEx" -> Put(Put(EmptyObj, "$regex", value), "$options", JStr("i"))
      [] OTHER -> Put(EmptyObj, MongoOp(op), value)

\* ApplyOp with Exists taken as the truthiness of the value (!!value).
ApplyOpTruthyExists(fieldFilter, op, value) ==
    CASE op = "Exists" -> Put(fieldFilter, "$exists", JBool(Truthy(value)))
      [] op \in {"In", "Nin"} -> Put(fieldFilter, MongoOp(op), OrElse(value, JList(<<>>)))
      [] op = "RegEx" -> Put(Put(fieldFilter, "$regex", value), "$options", JStr("i"))
      [] OTHER -> Put(fieldFilter, MongoOp(op), value)

\* One case of the switch, applied to the field's predicate object.
ApplyOp(fieldFilter, op, value) ==
    CASE op = "Exists" -> Put(fieldFilter, "$exists", JBool(value # JBool(FALSE)))
      [] op \in {"In", "Nin"} -> Put(fieldFilter, MongoOp(op), OrElse(value, JList(<<>>)))
      [] op = "RegEx" -> Put(Put(fieldFilter, "$regex", value), "$options", JStr("i"))
      [] OTHER -> Put(fieldFilter, MongoOp(op), value)

\* FullName dropping the scope.
FullNameFlat(scope, field) == field

\* `${scope}${scope ? '.' : ''}${field}`
FullName(scope, field) == IF scope = "" THEN field ELSE scope \o "." \o field

\* StoreGroup without the test for an empty list.
StoreGroupAlways(filter, field, subs) ==
    Put(filter, IF field = "And" THEN "$and" ELSE "$or", JList(subs))

\* filter[isAnd ? '$and' : '$or'] = subs, when subs is not empty.
StoreGroup(filter, field, subs) ==
    IF Len(subs) > 0
    THEN Put(filter, IF field = "And" THEN "$and" ELSE "$or", JList(subs))
    ELSE filter

\* StoreField without the test for an empty predicate object.
StoreFieldAlways(filter, fullName, fieldFilter) == Put(filter, fullName, fieldFilter)

\* filter[fullName] = fieldFilter, when fieldFilter has a key.
StoreField(filter, fullName, fieldFilter) ==
    IF Len(fieldFilter.kv) > 0 THEN Put(filter, fullName, fieldFilter) ELSE filter

RECURSIVE toMongoFilter(_, _, _, _)
RECURSIVE FieldLoop(_, _, _, _, _)
RECURSIVE OpLoop(_, _, _, _, _, _)
RECURSIVE MapSubs(_, _, _, _, _)
RECURSIVE MapSubsShared(_, _, _, _, _)

\* MapSubs handing each element the predicate of the element before it as its
\* accumulator, instead of a fresh one.
MapSubsShared(items, i, scope, done, room) ==
    IF i > Len(items) THEN [err |-> "none", subs |-> done]
    ELSE LET acc == IF Len(done) = 0 THEN EmptyObj ELSE done[Len(done)]
             r == toMongoFilter(items[i], scope, acc, room)
         IN IF r.err # "none" THEN [err |-> r.err, subs |-> <<>>]
            ELSE MapSubsShared(items, i + 1, scope, Append(done, r.filter), room)

\* (ops || []).map(f => toMongoFilter(f, scope)): element i onwards, `done`
\* holding the predicates of the elements before it.
MapSubs(items, i, scope, done, room) ==
    IF i > Len(items) THEN [err |-> "none", subs |-> done]
    ELSE LET r == toMongoFilter(items[i], scope, EmptyObj, room)
         IN IF r.err # "none" THEN [err |-> r.err, subs |-> <<>>]
            ELSE MapSubs(items, i + 1, scope, Append(done, r.filter), room)

\* The inner loop over Object.keys(ops || {}), from key i onwards.
OpLoop(ops, i, fullName, fieldFilter, filter, room) ==
    LET keys == Keys(OrElse(ops, EmptyObj))
    IN IF i > Len(keys) THEN [err |-> "none", fieldFilter |-> fieldFilter, filter |-> filter]
       ELSE LET op == keys[i]
                value == Get(ops, op)
            IN IF op \in KnownOps
               THEN OpLoop(ops, i + 1, fullName, ApplyOp(fieldFilter, op, value), filter, room)
               ELSE LET r == toMongoFilter(ops, fullName, filter, room)
                    IN IF r.err # "none"
                       THEN [err |-> r.err, fieldFilter |-> fieldFilter, filter |-> filter]
                       ELSE OpLoop(ops, i + 1, fullName, fieldFilter, r.filter, room)

\* The outer loop over Object.keys(gqlFilter || {}), from key i onwards.
FieldLoop(gqlFilter, i, scope, filter, room) ==
    LET keys == Keys(OrElse(gqlFilter, EmptyObj))
    IN IF i > Len(keys) THEN Ok(filter)
       ELSE LET field == keys[i]
                ops == Get(gqlFilter, field)
            IN IF field \in {"And", "Or"}
               THEN LET list == OrElse(ops, JList(<<>>))
                    IN IF list.t # "list" THEN Thrown("TypeError")
                       ELSE LET m == MapSubs(list.items, 1, scope, <<>>, room)
                            IN IF m.err # "none" THEN Thrown(m.err)
                               ELSE FieldLoop(gqlFilter, i + 1, scope,
                                              StoreGroup(filter, field, m.subs), room)
               ELSE LET fullName == FullName(scope, field)
                        r == OpLoop(ops, 1, fullName, EmptyObj, filter, room)
                    IN IF r.err # "none" THEN Thrown(r.err)
                       ELSE FieldLoop(gqlFilter, i + 1, scope,
                                      StoreField(r.filter, fullName, r.fieldFilter), room)

toMongoFilter(gqlFilter, scope, filter, room) ==
    IF room = 0 THEN Thrown("RangeError")
    ELSE FieldLoop(gqlFilter, 1, scope, filter, room - 1)

\* A top-level call: toMongoFilter(args.filter), scope and accumulator defaulted.
CompileFilter(gqlFilter) == toMongoFilter(gqlFilter, "", EmptyObj, StackLimit)

(***************************************************************************)
(* The filter values the compiler is run on.  Conforming values follow the *)
(* grammar createObjectFilter generates (operator objects per scalar       *)
(* field, nested objects, And/Or at the outermost level only); the         *)
(* malformed ones are what a caller outside GraphQL's input check can pass.*)
(***************************************************************************)
Obj1(k, v) == JObj(<<KV(k, v)>>)
Obj2(k1, v1, k2, v2) == JObj(<<KV(k1, v1), KV(k2, v2)>>)

\* Values given to an operator.
OpValues ==
    {Null, Undef, JBool(FALSE), JBool(TRUE), JNum(0), JNum(5), JStr(""), JStr("vip"),
     JList(<<>>), JList(<<JStr("vip")>>)}

PairValues == {JNum(5), JNum(10), Null}

\* Operator objects: {}, one operator, two different operators.
OpObjects ==
    {EmptyObj}
    \cup {Obj1(op, v) : op \in KnownOps, v \in OpValues}
    \cup {Obj2(o[1], v1, o[2], v2) :
              o \in {p \in KnownOps \X KnownOps : p[1] # p[2]}, v1 \in PairValues, v2 \in PairValues}

\* The operator objects nested filters and groups are built from.
Leaves ==
    {Null, EmptyObj, Obj1("Eq", JStr("Berlin")), Obj2("Gte", JNum(5), "Lte", JNum(10))}

NestedOne == {Obj1("city", l) : l \in Leaves}
NestedTwo == {Obj2("city", l1, "zip", l2) : l1 \in Leaves, l2 \in Leaves}
NestedDeep == {Obj1("geo", n) : n \in NestedOne}
Nested == NestedOne \cup NestedTwo \cup NestedDeep \cup {EmptyObj, Null}

FieldFilters ==
    {Obj1("age", o) : o \in OpObjects}
    \cup {Obj1("address", n) : n \in Nested}
    \cup {Obj2("name", l, "address", n) : l \in Leaves, n \in NestedOne \cup NestedDeep}
    \cup {Obj2("address", n, "city", l) : l \in Leaves, n \in NestedOne}

\* Elements of And/Or lists.
GroupElements ==
    {EmptyObj,
     Obj1("age", Obj1("Lt", JNum(18))),
     Obj1("tags", Obj1("In", JList(<<JStr("vip")>>))),
     Obj1("address", Obj1("city", Obj1("Eq", JStr("Berlin")))),
     Obj1("And", JList(<<>>)),
     Obj1("Or", JList(<<Obj1("age", Obj1("Gt", JNum(65)))>>))}

GroupLists ==
    {JList(<<>>)} \cup {JList(<<e>>) : e \in GroupElements}
    \cup {JList(<<e1, e2>>) : e1 \in GroupElements, e2 \in GroupElements}

SmallLists == {Null, JList(<<>>), JList(<<EmptyObj>>), JList(<<Obj1("age", Obj1("Lt", JNum(18)))>>)}

GroupFilters ==
    {Obj1(g, l) : g \in {"And", "Or"}, l \in GroupLists \cup {Null}}
    \cup {Obj2(g[1], l1, g[2], l2) :
              g \in {<<"And", "Or">>, <<"Or", "And">>}, l1 \in SmallLists, l2 \in SmallLists}
    \cup {JObj(<<KV("age", o), KV(g, l)>>) :
              o \in Leaves, g \in {"And", "Or"}, l \in SmallLists}
    \cup {JObj(<<KV(g, l), KV("address", n)>>) :
              g \in {"And", "Or"}, l \in SmallLists, n \in NestedOne}

\* Values outside the grammar.
Scalars == {Null, Undef, JBool(FALSE), JBool(TRUE), JNum(0), JNum(5), JStr(""), JStr("a"), JStr("ab")}

Malformed ==
    Scalars
    \cup {Obj1("name", v) : v \in Scalars}
    \cup {Obj1("address", Obj1("city", v)) : v \in Scalars}
    \cup {Obj1("name", l) : l \in {JList(<<>>), JList(<<JNum(1), JNum(2)>>), JList(<<JStr("a")>>),
                                   JList(<<Obj1("Eq", JNum(1))>>)}}
    \cup {Obj1(g, v) : g \in {"And", "Or"},
                       v \in {JNum(5), JBool(TRUE), JStr("a"), EmptyObj, JList(<<JNum(5)>>),
                              JList(<<Null>>), JList(<<JStr("a")>>)}}
    \cup {JObj(<<KV(g, l), KV("address", Obj1(g, JList(<<Obj1("city", Obj1("Eq", JNum(1)))>>)))>>) :
              g \in {"And", "Or"}, l \in {Null, JList(<<>>)}}
    \cup {Obj1("address", Obj2("Eq", JNum(1), "city", Obj1("Eq", JNum(2)))),
          Obj1("address", Obj2("city", Obj1("Eq", JNum(2)), "Eq", JNum(1))),
          Obj2("address.city", Obj1("Eq", JNum(1)), "address", Obj1("city", Obj1("Neq", JNum(2)))),
          Obj1("Eq", Obj1("Eq", JNum(1))),
          JList(<<Obj1("age", Obj1("Eq", JNum(1)))>>)}

Requests == FieldFilters \cup GroupFilters \cup Malformed

(***************************************************************************)
(* The request-time specification: one filter value, compiled once.        *)
(***************************************************************************)
IdleValidation ==
    /\ schema = EmptyObj
    /\ vpc = "start"
    /\ converted = EmptyObj
    /\ reconverted = EmptyObj

IdleTypes ==
    /\ design = <<>>
    /\ layout = <<>>
    /\ tpc = "layout"
    /\ record = Undef
    /\ handed = Undef

IdleFilter ==
    /\ request = EmptyObj
    /\ outcome = "pending"
    /\ predicate = EmptyObj

NoCall == [item |-> 0, result |-> 0, previous |-> 0, count |-> 0]
NoAccess == [n |-> 0, first |-> 0, last |-> 0, wrapsFirst |-> 0, wrapsLast |-> 0]
NoAccesses == [validation |-> NoAccess, updateValidation |-> NoAccess]
NoRuns == [validation |-> 0, updateValidation |-> 0]
NoSnapshot == [args |-> FALSE, compose |-> <<>>, convert |-> <<>>, converted |-> <<>>]

IdleRecord ==
    /\ heap = <<>>
    /\ descs = <<>>
    /\ members = <<>>
    /\ rec = 0
    /\ nullableCall = NoCall
    /\ accesses = NoAccesses
    /\ runs = NoRuns
    /\ snapshot = NoSnapshot

IdleCalls == calls = <<>>

IdleGrammar == entity = Undef /\ grammar = Undef

NoInvocation == [proxy |-> 0, args |-> Undef, current |-> FALSE, thrown |-> FALSE,
                 errors |-> <<>>, ran |-> 0]

IdleMethods == methods = <<>> /\ proxies = <<>> /\ invocation = NoInvocation

IdleCollection == store = {} /\ hooks = Undef /\ operation = Undef /\ served = 0
IdleExt == IdleRecord /\ IdleCalls /\ IdleGrammar /\ IdleMethods /\ IdleCollection

InitFilter ==
    /\ request \in Requests
    /\ outcome = "pending"
    /\ predicate = EmptyObj
    /\ IdleValidation
    /\ IdleTypes
    /\ IdleExt

\* collection.find: toMongoFilter(args.filter)
Compile ==
    /\ outcome = "pending"
    /\ LET r == CompileFilter(request)
       IN /\ outcome' = IF r.err = "none" THEN "ok" ELSE r.err
          /\ predicate' = r.filter
    /\ UNCHANGED <<request, validationVars, typeVars, extVars>>

NextFilter == Compile

SpecFilter == InitFilter /\ [][NextFilter]_vars

(***************************************************************************)
(* Properties of toMongoFilter.                                            *)
(***************************************************************************)
FieldNames == {"name", "age", "tags", "address", "city", "zip", "geo"}

IsOpObject(v) == v.t = "obj" /\ \A i \in 1..Len(v.kv) : v.kv[i].k \in KnownOps

RECURSIVE ConformsField(_)
\* A value of a field's filter grammar: null, an operator object, or a nested
\* object filter (field names only, no And/Or).
ConformsField(v) ==
    \/ v = Null
    \/ IsOpObject(v)
    \/ /\ v.t = "obj"
       /\ \A i \in 1..Len(v.kv) : v.kv[i].k \in FieldNames /\ ConformsField(v.kv[i].v)

RECURSIVE ConformsOuter(_)
\* A value of the outermost filter grammar: fields, plus And/Or lists of the same.
ConformsOuter(v) ==
    /\ v.t = "obj"
    /\ \A i \in 1..Len(v.kv) :
          LET e == v.kv[i]
          IN \/ e.k \in FieldNames /\ ConformsField(e.v)
             \/ /\ e.k \in {"And", "Or"}
                /\ \/ e.v = Null
                   \/ e.v.t = "list" /\ \A j \in 1..Len(e.v.items) : ConformsOuter(e.v.items[j])

Conforms(v) == v = Null \/ ConformsOuter(v)

Compiled == outcome = "ok"

GroupKey(g) == IF g = "And" THEN "$and" ELSE "$or"

EmptyGroup(g) ==
    /\ request.t = "obj"
    /\ HasKey(request, g)
    /\ Get(request, g) \in {Null, JList(<<>>)}

\* C3: a conforming filter object whose And (Or) key holds an empty list or null
\* compiles to a predicate without a $and ($or) key.
C3_EmptyGroupOmitted ==
    \A g \in {"And", "Or"} :
        (Compiled /\ Conforms(request) /\ EmptyGroup(g)) => ~HasKey(predicate, GroupKey(g))

\* C3 witness: an empty And beside a field that does constrain the result.
C3_Witness ==
    /\ Compiled
    /\ Conforms(request)
    /\ EmptyGroup("And")
    /\ Len(predicate.kv) > 0

\* The operators a field's operator object gives, and the store keys they must yield.
StoreKeysOf(ops) ==
    {MongoOp(ops.kv[i].k) : i \in 1..Len(ops.kv)}
    \cup (IF HasKey(ops, "RegEx") THEN {"$options"} ELSE {})

PlainOps == {"Eq", "Neq", "Lt", "Lte", "Gt", "Gte"}

\* The top-level fields of the request that carry two or more operators.
MultiOpFields ==
    IF request.t # "obj" THEN {}
    ELSE {i \in 1..Len(request.kv) :
              /\ request.kv[i].k \in FieldNames
              /\ IsOpObject(request.kv[i].v)
              /\ Len(request.kv[i].v.kv) >= 2}

\* C4: a field with several operators yields exactly one predicate object under
\* the field's path, holding the translation of every operator given.
C4_OperatorsConjoined ==
    (Compiled /\ Conforms(request)) =>
        \A i \in MultiOpFields :
            LET field == request.kv[i].k
                ops == request.kv[i].v
                p == Get(predicate, field)
            IN /\ Cardinality({j \in 1..Len(predicate.kv) : predicate.kv[j].k = field}) = 1
               /\ p.t = "obj"
               /\ {p.kv[j].k : j \in 1..Len(p.kv)} = StoreKeysOf(ops)
               /\ Len(p.kv) = Cardinality(StoreKeysOf(ops))
               /\ \A j \in 1..Len(ops.kv) :
                     ops.kv[j].k \in PlainOps => Get(p, MongoOp(ops.kv[j].k)) = ops.kv[j].v
               /\ ~HasKey(request, "Or") => ~HasKey(predicate, "$or")

\* C4 witness: {age: {Gte: 5, Lte: 10}} compiled to {age: {$gte: 5, $lte: 10}}.
C4_Witness ==
    /\ Compiled
    /\ request = Obj1("age", Obj2("Gte", JNum(5), "Lte", JNum(10)))
    /\ predicate = Obj1("age", Obj2("$gte", JNum(5), "$lte", JNum(10)))

RECURSIVE Dotted(_)
\* The field names of a path joined by dots.
Dotted(path) ==
    IF Len(path) = 1 THEN path[1] ELSE Dotted(SubSeq(path, 1, Len(path) - 1)) \o "." \o path[Len(path)]

RECURSIVE LeafFields(_, _)
\* The leaves of a conforming object filter: the fields holding a non-empty
\* operator object, each with the field names from the root down to it.
LeafFields(v, path) ==
    IF v.t # "obj" THEN {}
    ELSE UNION {LET e == v.kv[i]
                IN IF e.k \notin FieldNames THEN {}
                   ELSE IF IsOpObject(e.v) /\ Len(e.v.kv) > 0
                        THEN {[path |-> Append(path, e.k), ops |-> e.v]}
                        ELSE LeafFields(e.v, Append(path, e.k)) : i \in 1..Len(v.kv)}

StoreOps == {"$exists", "$eq", "$ne", "$lt", "$lte", "$gt", "$gte", "$in", "$nin", "$regex", "$options"}

\* C5: every leaf of a nested object filter is emitted under the one top-level
\* key that joins the field names from the root by dots; no key stands for an
\* intermediate object and no predicate object is nested in another.
C5_NestedPathsFlattened ==
    (Compiled /\ Conforms(request)) =>
        LET leaves == LeafFields(request, <<>>)
        IN /\ \A l \in leaves :
                 LET p == Get(predicate, Dotted(l.path))
                 IN /\ p.t = "obj"
                    /\ {p.kv[j].k : j \in 1..Len(p.kv)} = StoreKeysOf(l.ops)
                    /\ \A j \in 1..Len(l.ops.kv) :
                          l.ops.kv[j].k \in PlainOps => Get(p, MongoOp(l.ops.kv[j].k)) = l.ops.kv[j].v
           /\ \A j \in 1..Len(predicate.kv) :
                 predicate.kv[j].k \notin {"$and", "$or"} =>
                     /\ \E l \in leaves : predicate.kv[j].k = Dotted(l.path)
                     /\ \A m \in 1..Len(predicate.kv[j].v.kv) :
                           predicate.kv[j].v.kv[m].k \in StoreOps

\* C5 witness: a leaf three levels down, emitted under "address.geo.city".
C5_Witness ==
    /\ Compiled
    /\ request = Obj1("address", Obj1("geo", Obj1("city", Obj1("Eq", JStr("Berlin")))))
    /\ predicate = Obj1("address.geo.city", Obj1("$eq", JStr("Berlin")))

NonEmptyGroup(g) ==
    /\ request.t = "obj"
    /\ HasKey(request, g)
    /\ Get(request, g).t = "list"
    /\ Len(Get(request, g).items) > 0

OrExample ==
    Obj1("Or", JList(<<Obj1("age", Obj1("Lt", JNum(18))),
                       Obj1("tags", Obj1("In", JList(<<JStr("vip")>>)))>>))

OrExamplePredicate ==
    Obj1("$or", JList(<<Obj1("age", Obj1("$lt", JNum(18))),
                        Obj1("tags", Obj1("$in", JList(<<JStr("vip")>>)))>>))

\* C6: a non-empty And/Or list compiles to a $and/$or list with one predicate per
\* element, in order, each being what the element compiles to on its own with a
\* fresh accumulator and the enclosing scope.
C6_GroupPerElement ==
    (Compiled /\ Conforms(request)) =>
        /\ \A g \in {"And", "Or"} :
              NonEmptyGroup(g) =>
                  LET items == Get(request, g).items
                      subs == Get(predicate, GroupKey(g))
                  IN /\ subs.t = "list"
                     /\ Len(subs.items) = Len(items)
                     /\ \A i \in 1..Len(items) :
                           subs.items[i] = toMongoFilter(items[i], "", EmptyObj, StackLimit).filter
        /\ request = OrExample => predicate = OrExamplePredicate

\* C6 witness: the example of the specification, compiled.
C6_Witness ==
    /\ Compiled
    /\ request = OrExample
    /\ predicate = OrExamplePredicate

RECURSIVE NoOperator(_)
\* A field value that gives no recognized operator: null, {}, or nested objects
\* of which none gives one.
NoOperator(v) ==
    \/ v \in {Null, Undef}
    \/ /\ v.t = "obj"
       /\ \A i \in 1..Len(v.kv) : v.kv[i].k \in FieldNames /\ NoOperator(v.kv[i].v)

StartsWith(key, prefix) ==
    Len(key) >= Len(prefix) /\ SubSeq(key, 1, Len(prefix)) = prefix

\* C8: in a returned predicate every key other than $and/$or holds a non-empty
\* object of store operators; a field without a recognized operator adds no key;
\* an empty or absent filter compiles to {}.
C8_OnlyNonEmptyFields ==
    Compiled =>
        /\ \A j \in 1..Len(predicate.kv) :
              predicate.kv[j].k \notin {"$and", "$or"} =>
                  /\ predicate.kv[j].v.t = "obj"
                  /\ Len(predicate.kv[j].v.kv) > 0
                  /\ \A m \in 1..Len(predicate.kv[j].v.kv) : predicate.kv[j].v.kv[m].k \in StoreOps
        /\ request \in {Null, Undef, EmptyObj} => predicate = EmptyObj
        /\ request.t = "obj" =>
              \A i \in 1..Len(request.kv) :
                  (request.kv[i].k \in FieldNames /\ NoOperator(request.kv[i].v)) =>
                      \A j \in 1..Len(predicate.kv) :
                          ~StartsWith(predicate.kv[j].k, request.kv[i].k)

\* C8 witness: a field without operators beside one with operators; only the
\* latter has a key.
C8_Witness ==
    /\ Compiled
    /\ request = Obj2("name", EmptyObj, "address", Obj1("city", Obj1("Eq", JStr("Berlin"))))
    /\ predicate = Obj1("address.city", Obj1("$eq", JStr("Berlin")))

\* The translation table as the specification states it.
TableKey ==
    [Exists |-> "$exists", Eq |-> "$eq", Neq |-> "$ne", Lt |-> "$lt", Lte |-> "$lte",
     Gt |-> "$gt", Gte |-> "$gte", In |-> "$in", Nin |-> "$nin", RegEx |-> "$regex"]

TableValue(op, value) ==
    CASE op = "Exists" -> IF value = JBool(FALSE) THEN JBool(FALSE) ELSE JBool(TRUE)
      [] op \in {"In", "Nin"} -> IF value \in {Null, Undef} THEN JList(<<>>) ELSE value
      [] OTHER -> value

SingleOp ==
    /\ request.t = "obj"
    /\ Len(request.kv) = 1
    /\ request.kv[1].k = "age"
    /\ IsOpObject(request.kv[1].v)
    /\ Len(request.kv[1].v.kv) = 1
    /\ request.kv[1].v.kv[1].k \in {"In", "Nin"} =>
          request.kv[1].v.kv[1].v.t \in {"list", "null", "undefined"}

RECURSIVE OptionsWithRegex(_)
\* $options occurs in an object only beside $regex, at any depth of the value.
OptionsWithRegex(v) ==
    CASE v.t = "obj" ->
            /\ HasKey(v, "$options") => HasKey(v, "$regex")
            /\ \A i \in 1..Len(v.kv) : OptionsWithRegex(v.kv[i].v)
      [] v.t = "list" -> \A i \in 1..Len(v.items) : OptionsWithRegex(v.items[i])
      [] OTHER -> TRUE

\* C9: each operator key is translated by the fixed table: Exists to $exists
\* (true unless the value is exactly false), Eq/Neq/Lt/Lte/Gt/Gte to
\* $eq/$ne/$lt/$lte/$gt/$gte with the value unchanged, In/Nin to $in/$nin with
\* the list given ([] for null or absent), RegEx to $regex plus $options 'i';
\* $options never occurs without $regex.
C9_OperatorTable ==
    Compiled =>
        /\ SingleOp =>
              LET op == request.kv[1].v.kv[1].k
                  value == request.kv[1].v.kv[1].v
                  p == Get(predicate, "age")
              IN /\ Len(predicate.kv) = 1
                 /\ p.t = "obj"
                 /\ Get(p, TableKey[op]) = TableValue(op, value)
                 /\ IF op = "RegEx"
                    THEN Len(p.kv) = 2 /\ Get(p, "$options") = JStr("i")
                    ELSE Len(p.kv) = 1
        /\ OptionsWithRegex(predicate)

\* C9 witness: {age: {Exists: null}} compiled to {age: {$exists: true}}.
C9_Witness ==
    /\ Compiled
    /\ request = Obj1("age", Obj1("Exists", Null))
    /\ predicate = Obj1("age", Obj1("$exists", JBool(TRUE)))

\* C10: toMongoFilter raises no error on any finite filter value, and a scalar
\* or a list in the place of an operator object is ignored.
C10_NeverThrows ==
    outcome # "pending" =>
        /\ outcome = "ok"
        /\ (request.t = "obj" /\ Len(request.kv) = 1 /\ request.kv[1].k = "name"
              /\ request.kv[1].v.t \in {"num", "bool", "str", "list"}) => predicate = EmptyObj

\* A group whose list is not empty and whose every element compiles to {}.
TrivialGroup(g) ==
    /\ request.t = "obj"
    /\ HasKey(request, g)
    /\ Get(request, g).t = "list"
    /\ Len(Get(request, g).items) > 0
    /\ \A i \in 1..Len(Get(request, g).items) :
          CompileFilter(Get(request, g).items[i]) = Ok(EmptyObj)

\* C17: an And/Or group is left out of the compiled predicate whenever no element
\* of its list compiles to a non-trivial predicate, also when the list is not
\* empty (And: [{}], And: [{And: []}]).
C17_TrivialGroupOmitted ==
    (Compiled /\ Conforms(request)) =>
        \A g \in {"And", "Or"} : TrivialGroup(g) => ~HasKey(predicate, GroupKey(g))

(***************************************************************************)
(* convertForUpdate (validation.ts).  A schema and its rules are           *)
(* JavaScript values; a call yields the converted value or the TypeError   *)
(* thrown on reading `.type` of null or undefined.                         *)
(***************************************************************************)
Converted(v) == [err |-> "none", v |-> v]
Failed == [err |-> "TypeError", v |-> Undef]

\* { ...v }: the own enumerable properties of v, as a new object.
Spread(v) == JObj([i \in 1..Len(Keys(v)) |-> KV(Keys(v)[i], Get(v, Keys(v)[i]))])

\* value.slice(1)
Rest(items) == SubSeq(items, 2, Len(items))

RECURSIVE convertRuleForUpdate(_)
RECURSIVE ConvertProps(_, _)

\* The loop stopping after the first key.
ConvertPropsFirstOnly(properties, i) ==
    IF i > Len(properties.kv) \/ i > 1 THEN Converted(properties)
    ELSE LET c == convertRuleForUpdate(properties.kv[i].v)
         IN IF c.err # "none" THEN Failed
            ELSE ConvertProps(Put(properties, properties.kv[i].k, c.v), i + 1)

\* The loop over Object.keys(properties), from key i onwards.
ConvertProps(properties, i) ==
    IF i > Len(properties.kv) THEN Converted(properties)
    ELSE LET c == convertRuleForUpdate(properties.kv[i].v)
         IN IF c.err # "none" THEN Failed
            ELSE ConvertProps(Put(properties, properties.kv[i].k, c.v), i + 1)

\* convertRuleForUpdate with optional set on every rule, also on one that forbids it.
ConvertRuleAlwaysOptional(value) ==
    IF value.t = "list"
    THEN LET c == convertRuleForUpdate(IF Len(value.items) > 0 THEN value.items[1] ELSE Undef)
         IN IF c.err # "none" THEN Failed
            ELSE Converted(JList(<<c.v>> \o Rest(value.items)))
    ELSE IF value.t \in {"null", "undefined"} THEN Failed
    ELSE IF ~Truthy(Get(value, "type")) THEN Converted(value)
    ELSE LET rule == Put(Spread(value), "optional", JBool(TRUE))
             properties == Get(rule, "properties")
         IN IF Get(rule, "type") # JStr("object") \/ ~Truthy(properties) THEN Converted(rule)
            ELSE LET c == ConvertProps(Spread(properties), 1)
                 IN IF c.err # "none" THEN Failed
                    ELSE Converted(Put(rule, "properties", c.v))

convertRuleForUpdate(value) ==
    IF value.t = "list"
    THEN LET c == convertRuleForUpdate(IF Len(value.items) > 0 THEN value.items[1] ELSE Undef)
         IN IF c.err # "none" THEN Failed
            ELSE Converted(JList(<<c.v>> \o Rest(value.items)))
    ELSE IF value.t \in {"null", "undefined"} THEN Failed
    ELSE IF ~Truthy(Get(value, "type")) THEN Converted(value)
    ELSE LET copy == Spread(value)
             rule == IF Get(copy, "optional") # JBool(FALSE)
                     THEN Put(copy, "optional", JBool(TRUE))
                     ELSE copy
             properties == Get(rule, "properties")
         IN IF Get(rule, "type") # JStr("object") \/ ~Truthy(properties) THEN Converted(rule)
            ELSE LET c == ConvertProps(Spread(properties), 1)
                 IN IF c.err # "none" THEN Failed
                    ELSE Converted(Put(rule, "properties", c.v))

\* convertForUpdate: a copy of the schema with every entry converted.
convertForUpdate(s) == ConvertProps(Spread(s), 1)

(***************************************************************************)
(* The schemas convertForUpdate is run on: rules with and without a type,  *)
(* optional unset, true or false, list-form rules, shorthand strings,      *)
(* object rules with properties up to two levels deep, and $$strict.       *)
(***************************************************************************)
Obj3(k1, v1, k2, v2, k3, v3) == JObj(<<KV(k1, v1), KV(k2, v2), KV(k3, v3)>>)

StringRule == Obj1("type", JStr("string"))

PlainRules ==
    {StringRule,
     Obj2("type", JStr("string"), "optional", JBool(TRUE)),
     Obj2("type", JStr("string"), "optional", JBool(FALSE)),
     Obj2("optional", JBool(FALSE), "type", JStr("number")),
     Obj1("min", JNum(1))}

PlainEntries ==
    PlainRules
    \cup {JList(<<r>>) : r \in PlainRules}
    \cup {JList(<<r, Obj1("type", JStr("number"))>>) : r \in PlainRules}
    \cup {JStr("string"), JBool(TRUE)}

ObjectHeads ==
    {Obj2("type", JStr("object"), "strict", JBool(TRUE)),
     Obj3("type", JStr("object"), "strict", JBool(TRUE), "optional", JBool(TRUE)),
     Obj3("optional", JBool(FALSE), "type", JStr("object"), "strict", JBool(TRUE))}

SomeEntries ==
    {StringRule, JList(<<StringRule>>), JList(<<Obj2("type", JStr("string"), "optional", JBool(FALSE))>>)}

ObjectRules ==
    ObjectHeads
    \cup {Put(h, "properties", Obj1("city", e)) : h \in ObjectHeads, e \in PlainEntries}
    \cup {Put(h, "properties", Obj2("city", e1, "zip", e2)) :
              h \in ObjectHeads, e1 \in SomeEntries, e2 \in SomeEntries}

DeepRules ==
    {Put(h, "properties", Obj1("geo", JList(<<o>>))) :
         h \in ObjectHeads,
         o \in {Put(g, "properties", Obj1("city", e)) : g \in ObjectHeads, e \in SomeEntries}}

ArrayRule == Obj2("items", JList(<<StringRule>>), "type", JStr("array"))

Entries ==
    PlainEntries \cup ObjectRules \cup {JList(<<o>>) : o \in ObjectRules} \cup DeepRules
    \cup {ArrayRule, JList(<<ArrayRule>>)}

Schemas ==
    {EmptyObj}
    \cup {Obj1("address", e) : e \in Entries}
    \cup {Obj2("address", e, "$$strict", JBool(TRUE)) : e \in Entries}
    \cup {Obj3("name", e1, "address", e2, "$$strict", JBool(TRUE)) :
              e1 \in SomeEntries, e2 \in DeepRules}
    \cup {Obj1("name", JList(<<>>)), Obj1("name", Null)}

(***************************************************************************)
(* The validation specification: one schema, converted once, and the       *)
(* result converted again.                                                 *)
(***************************************************************************)
InitValidation ==
    /\ schema \in Schemas
    /\ vpc = "start"
    /\ converted = EmptyObj
    /\ reconverted = EmptyObj
    /\ IdleFilter
    /\ IdleTypes
    /\ IdleExt

\* updateValidation: convertForUpdate(this.validation)
ConvertOnce ==
    /\ vpc = "start"
    /\ LET c == convertForUpdate(schema)
       IN /\ vpc' = IF c.err = "none" THEN "once" ELSE c.err
          /\ converted' = IF c.err = "none" THEN c.v ELSE converted
    /\ UNCHANGED <<schema, reconverted, filterVars, typeVars, extVars>>

\* convertForUpdate applied to its own result.
ConvertAgain ==
    /\ vpc = "once"
    /\ LET c == convertForUpdate(converted)
       IN /\ vpc' = IF c.err = "none" THEN "twice" ELSE c.err
          /\ reconverted' = IF c.err = "none" THEN c.v ELSE reconverted
    /\ UNCHANGED <<schema, converted, filterVars, typeVars, extVars>>

NextValidation == ConvertOnce \/ ConvertAgain

SpecValidation == InitValidation /\ [][NextValidation]_vars

RECURSIVE ForbiddenKept(_, _)
\* Wherever `a` holds an object with optional === false, `b` holds one too.
ForbiddenKept(a, b) ==
    CASE a.t = "obj" ->
            /\ b.t = "obj"
            /\ Get(a, "optional") = JBool(FALSE) => Get(b, "optional") = JBool(FALSE)
            /\ \A i \in 1..Len(a.kv) : ForbiddenKept(a.kv[i].v, Get(b, a.kv[i].k))
      [] a.t = "list" ->
            /\ b.t = "list"
            /\ Len(b.items) = Len(a.items)
            /\ \A i \in 1..Len(a.items) : ForbiddenKept(a.items[i], b.items[i])
      [] OTHER -> TRUE

RECURSIVE HasForbidden(_)
HasForbidden(a) ==
    CASE a.t = "obj" ->
            \/ Get(a, "optional") = JBool(FALSE)
            \/ \E i \in 1..Len(a.kv) : HasForbidden(a.kv[i].v)
      [] a.t = "list" -> \E i \in 1..Len(a.items) : HasForbidden(a.items[i])
      [] OTHER -> FALSE

\* C2: convertForUpdate applied twice gives what it gives applied once, and a rule
\* with optional === false has optional === false after one pass and after two.
C2_ConvertIdempotent ==
    /\ vpc \in {"once", "twice"} => ForbiddenKept(schema, converted)
    /\ vpc = "twice" => reconverted = converted /\ ForbiddenKept(schema, reconverted)

\* C2 witness: two passes over a schema in which a required rule had to become
\* optional and a rule with optional === false sits inside a nested object.
C2_Witness ==
    /\ vpc = "twice"
    /\ converted # schema
    /\ HasForbidden(schema)
    /\ \E i \in 1..Len(schema.kv) :
          /\ schema.kv[i].v.t = "obj"
          /\ HasKey(schema.kv[i].v, "properties")
          /\ Get(schema.kv[i].v, "optional") = Undef
          /\ HasForbidden(Get(schema.kv[i].v, "properties"))

RECURSIVE Loosened(_, _)
\* `b` is the entry `a` with optional === true on every rule reached through the
\* first element of a list-form rule and the properties of an object rule,
\* except where `a` has optional === false, which `b` has too.  A rule is an
\* object with a type.
Loosened(a, b) ==
    CASE a.t = "list" /\ Len(a.items) > 0 ->
            /\ b.t = "list"
            /\ Len(b.items) = Len(a.items)
            /\ Loosened(a.items[1], b.items[1])
      [] a.t = "obj" /\ Truthy(Get(a, "type")) ->
            /\ b.t = "obj"
            /\ Get(b, "optional") =
                   (IF Get(a, "optional") = JBool(FALSE) THEN JBool(FALSE) ELSE JBool(TRUE))
            /\ (Get(a, "type") = JStr("object") /\ Get(a, "properties").t = "obj") =>
                   /\ Get(b, "properties").t = "obj"
                   /\ \A i \in 1..Len(Get(a, "properties").kv) :
                         Loosened(Get(a, "properties").kv[i].v,
                                  Get(Get(b, "properties"), Get(a, "properties").kv[i].k))
      [] OTHER -> TRUE

\* C18: in the schema convertForUpdate returns, every rule reached by descent
\* from the top-level entries has optional === true, except the rules that had
\* optional === false, which keep it.
C18_ReachableRulesOptional ==
    vpc \in {"once", "twice"} =>
        \A i \in 1..Len(schema.kv) :
            Loosened(schema.kv[i].v, Get(converted, schema.kv[i].k))

\* C18 witness: one pass over a schema with a list-form object rule two levels
\* deep, holding a rule that forbids optionality below rules that do not.
C18_Witness ==
    /\ vpc = "once"
    /\ \E h \in ObjectHeads, g \in ObjectHeads :
          /\ Get(h, "optional") = Undef
          /\ Get(g, "optional") = Undef
          /\ schema = Obj3("name", JList(<<StringRule>>),
                           "address",
                           Put(h, "properties",
                               Obj1("geo", JList(<<Put(g, "properties",
                                   Obj1("city", JList(<<Obj2("type", JStr("string"),
                                                            "optional", JBool(FALSE))>>)))>>))),
                           "$$strict", JBool(TRUE))
    /\ Get(Get(converted, "name").items[1], "optional") = JBool(TRUE)

(***************************************************************************)
(* Field descriptors (types.ts).  A GraphQL type is a scalar, an object or *)
(* input object type with its fields, or a List / NonNull wrapper.         *)
(***************************************************************************)
NoType == [k |-> "none"]
ScalarType(name) == [k |-> "scalar", name |-> name]
ObjectType(name, fields) == [k |-> "object", name |-> name, fields |-> fields]
InputObjectType(name, fields) == [k |-> "input", name |-> name, fields |-> fields]
ListOf(type) == [k |-> "list", of |-> type]
NonNull(type) == [k |-> "nonnull", of |-> type]
GraphQLString == ScalarType("String")

\* { ...a, ...b }
Merge(a, b) == JObj([i \in 1..Len(a.kv) |-> IF HasKey(b, a.kv[i].k)
                                             THEN KV(a.kv[i].k, Get(b, a.kv[i].k))
                                             ELSE a.kv[i]]
                    \o SelectSeq(b.kv, LAMBDA e : ~HasKey(a, e.k)))

\* new GqlBase(options, sortable, graphQLType, graphQLInputType, graphQLUpdateType):
\* a scalar or enum type stands in for the input and update types not given.
GqlBase(options, sortable, graphQLType, graphQLInputType, graphQLUpdateType) ==
    LET simple == graphQLType.k \in {"scalar", "enum"}
    IN [options |-> [options EXCEPT !.validation = OrElse(@, EmptyObj)],
        sortable |-> sortable,
        graphQLType |-> graphQLType,
        graphQLInputType |-> IF simple /\ graphQLInputType = NoType
                             THEN graphQLType ELSE graphQLInputType,
        graphQLUpdateType |-> IF simple /\ graphQLUpdateType = NoType
                              THEN graphQLType ELSE graphQLUpdateType]

\* get outputType
outputType(gql) ==
    IF Truthy(Get(gql.options.validation, "optional"))
    THEN gql.graphQLType ELSE NonNull(gql.graphQLType)

\* get inputType
inputType(gql) ==
    IF Truthy(Get(gql.options.validation, "optional"))
    THEN gql.graphQLInputType ELSE NonNull(gql.graphQLInputType)

\* get updateType
updateType(gql) ==
    IF gql.graphQLUpdateType.k = "nonnull" THEN gql.graphQLUpdateType.of ELSE gql.graphQLUpdateType

\* get validations
validations(gql) == JList(<<gql.options.validation>>)

\* GqlString(options); options.validation is the caller's rule.
GqlString(options) ==
    GqlBase([computed |-> options.computed,
             validation |-> Merge(Obj1("type", JStr("string")), options.validation)],
            JBool(options.sortable = TRUE), GraphQLString, NoType, NoType)

\* GqlArray(item)
GqlArray(item) ==
    GqlBase([computed |-> FALSE,
             validation |-> Obj2("items", validations(item), "type", JStr("array"))],
            item.sortable, ListOf(outputType(item)), ListOf(inputType(item)),
            ListOf(inputType(item)))

\* GqlNullable(item): the rule of the descriptor itself is set to optional.
GqlNullable(item) ==
    IF item = Undef THEN item
    ELSE [item EXCEPT !.options.validation = Put(@, "optional", JBool(TRUE))]

(***************************************************************************)
(* createObject (types.ts): the record composer.  `item` is the layout, a  *)
(* sequence of (field name, descriptor or undefined) in key order.         *)
(***************************************************************************)
Field(name, type) == [name |-> name, type |-> type]

\* The fields of the layout that are present, in order.
Present(item) == SelectSeq(item, LAMBDA e : e.gql # Undef)

\* Every present field, computed or not.
WritableAll(item) == Present(item)

\* Those that are not computed: the ones reaching validation, input and update.
Writable(item) == SelectSeq(Present(item), LAMBDA e : ~e.gql.options.computed)

\* Sort paths without the name of the field they belong to.
SortPathsUnprefixed(field, sortable) ==
    IF ~Truthy(sortable) THEN <<>>
    ELSE IF sortable.t = "list" THEN sortable.items
    ELSE <<JStr(field)>>

\* The sort paths one field adds: `${field}.${f}` for each path of a list, the
\* field's name for sortable === true.
SortPathsOf(field, sortable) ==
    IF ~Truthy(sortable) THEN <<>>
    ELSE IF sortable.t = "list"
         THEN [i \in 1..Len(sortable.items) |-> JStr(field \o "." \o sortable.items[i].s)]
         ELSE <<JStr(field)>>

RECURSIVE CollectSort(_, _)
\* sort, after the fields of the layout from i onwards pushed their paths.
CollectSort(item, i) ==
    IF i > Len(item) THEN <<>>
    ELSE SortPathsOf(item[i].name, item[i].gql.sortable) \o CollectSort(item, i + 1)

\* The rules noted for one field: for a parameter list a copy with
\* optional: false unless the rule is optional.
FieldValidations(isArgs, gql) ==
    LET fieldValidations == validations(gql)
    IN IF isArgs /\ Get(fieldValidations.items[1], "optional") # JBool(TRUE)
       THEN JList(<<Put(Spread(fieldValidations.items[1]), "optional", JBool(FALSE))>>
                  \o Rest(fieldValidations.items))
       ELSE fieldValidations

\* The update type wrapped as NonNull whatever the kind of record.
UpdateFieldTypeNonNull(isArgs, type) ==
    IF type.k = "nonnull" THEN type ELSE NonNull(type)

\* The type of a field in the update shape.
UpdateFieldType(isArgs, type) ==
    IF type.k = "nonnull" \/ ~isArgs THEN type ELSE NonNull(type)

\* The object rule with the caller's keys laid over the composer's.
ObjectRuleCallerWins(options, properties) ==
    Merge(Obj3("properties", properties, "strict", JBool(TRUE), "type", JStr("object")),
          OrElse(options.validation, EmptyObj))

\* { ...options?.validation, properties, strict: true, type: 'object' }
ObjectRule(options, properties) ==
    Put(Put(Put(Spread(OrElse(options.validation, EmptyObj)),
                "properties", properties), "strict", JBool(TRUE)), "type", JStr("object"))

createObject(isArgs, name, item, options, noValidation) ==
    LET present == Present(item)
        writable == Writable(item)
        properties ==
            JObj([i \in 1..Len(writable) |->
                     KV(writable[i].name, FieldValidations(isArgs, writable[i].gql))])
        validation == ObjectRule(options, properties)
        fields == [i \in 1..Len(present) |-> Field(present[i].name, outputType(present[i].gql))]
        inputFields ==
            [i \in 1..Len(writable) |-> Field(writable[i].name, inputType(writable[i].gql))]
        updateFields ==
            [i \in 1..Len(writable) |->
                Field(writable[i].name, UpdateFieldType(isArgs, updateType(writable[i].gql)))]
        sort == CollectSort(present, 1)
    IN GqlBase([computed |-> options.computed,
                validation |-> IF noValidation THEN Obj1("type", JStr("object")) ELSE validation],
               IF Len(sort) > 0 THEN JList(sort) ELSE JBool(FALSE),
               ObjectType(name, fields),
               InputObjectType(name \o "Input", inputFields),
               InputObjectType(name \o "Update", updateFields))

NoOptions == [computed |-> FALSE, validation |-> Undef]

\* GqlObject(name, item)
GqlObject(name, item) == createObject(FALSE, name, item, NoOptions, FALSE)

\* GqlArgs(item)
GqlArgs(item) == createObject(TRUE, "", item, NoOptions, FALSE)

(***************************************************************************)
(* The declared layouts the composer is run on.  A declaration is what a   *)
(* build script writes: GqlString with its options, GqlArray, GqlObject,   *)
(* each possibly wrapped in GqlNullable, or a field left undefined.        *)
(***************************************************************************)
DString(sortable, computed, nullable) ==
    [kind |-> "string", sortable |-> sortable, computed |-> computed, nullable |-> nullable]
DArray(of, nullable) == [kind |-> "array", of |-> of, nullable |-> nullable]
DObject(name, fields, nullable) ==
    [kind |-> "object", name |-> name, fields |-> fields, nullable |-> nullable]
DAbsent == [kind |-> "absent"]
Decl(name, d) == [name |-> name, d |-> d]

RECURSIVE Build(_)
\* The descriptor a declaration evaluates to.
Build(d) ==
    IF d.kind = "absent" THEN Undef
    ELSE LET gql ==
                 CASE d.kind = "string" ->
                          GqlString([sortable |-> d.sortable, computed |-> d.computed,
                                     validation |-> EmptyObj])
                   [] d.kind = "array" -> GqlArray(Build(d.of))
                   [] d.kind = "object" ->
                          GqlObject(d.name, [i \in 1..Len(d.fields) |->
                                                [name |-> d.fields[i].name,
                                                 gql |-> Build(d.fields[i].d)]])
         IN IF d.nullable THEN GqlNullable(gql) ELSE gql

BuildLayout(decls) == [i \in 1..Len(decls) |-> [name |-> decls[i].name, gql |-> Build(decls[i].d)]]

SortableString == DString(TRUE, FALSE, FALSE)
PlainString == DString(FALSE, FALSE, FALSE)

Strings == {DString(s, c, n) : s \in BOOLEAN, c \in BOOLEAN, n \in BOOLEAN}

InnerStrings ==
    {SortableString, PlainString, DString(FALSE, FALSE, TRUE), DString(TRUE, TRUE, FALSE), DAbsent}

Addresses ==
    {DObject("Address", <<Decl("city", x), Decl("zip", y)>>, FALSE) :
         x \in InnerStrings, y \in InnerStrings}

ExampleAddress ==
    DObject("Address", <<Decl("city", SortableString), Decl("zip", PlainString)>>, FALSE)

Geos == {DObject("Geo", <<Decl("lat", x)>>, FALSE) : x \in InnerStrings}

DeepAddresses ==
    {DObject("Address", <<Decl("geo", g), Decl("zip", SortableString)>>, n) :
         g \in Geos, n \in BOOLEAN}

Arrays ==
    {DArray(x, n) : x \in {SortableString, PlainString, ExampleAddress}, n \in BOOLEAN}

SecondFields ==
    Addresses \cup DeepAddresses \cup Arrays
    \cup {[ExampleAddress EXCEPT !.nullable = TRUE], SortableString, PlainString, DAbsent}

Designs ==
    {<<>>}
    \cup {<<Decl("name", x), Decl("address", y)>> : x \in Strings \cup {DAbsent}, y \in SecondFields}

ExampleDesign == <<Decl("name", SortableString), Decl("address", ExampleAddress)>>

(***************************************************************************)
(* The build-time specification: the fields are declared, then composed    *)
(* into an entity (GqlObject) or into a parameter list (GqlArgs).          *)
(***************************************************************************)
InitTypes ==
    /\ design \in Designs
    /\ layout = BuildLayout(design)
    /\ tpc = "layout"
    /\ record = Undef
    /\ handed = Undef
    /\ IdleFilter
    /\ IdleValidation
    /\ IdleExt

\* GqlObject('Person', layout)
ComposeObject ==
    /\ tpc = "layout"
    /\ record' = GqlObject("Person", layout)
    /\ tpc' = "object"
    /\ UNCHANGED <<design, layout, handed, filterVars, validationVars, extVars>>

\* GqlArgs(layout)
ComposeArgs ==
    /\ tpc = "layout"
    /\ record' = GqlArgs(layout)
    /\ tpc' = "args"
    /\ UNCHANGED <<design, layout, handed, filterVars, validationVars, extVars>>

\* The object rules a caller hands over as options.validation: none, empty, its
\* own strict, type and properties, further keys of an object rule.
CallerRules ==
    {EmptyObj,
     Obj1("strict", JBool(FALSE)),
     Obj1("strict", JStr("remove")),
     Obj1("type", JStr("any")),
     Obj1("properties", Obj1("other", JList(<<Obj1("type", JStr("number"))>>))),
     Obj3("properties", EmptyObj, "strict", JBool(FALSE), "type", JStr("custom")),
     Obj2("minProps", JNum(1), "strict", JBool(FALSE)),
     Obj2("$$strict", JBool(FALSE), "optional", JBool(TRUE))}

\* GqlObject('Person', layout, options) or GqlArgs(layout, options)
ComposeWith ==
    /\ tpc = "layout"
    /\ \E isArgs \in BOOLEAN, rule \in CallerRules :
          /\ handed' = [computed |-> FALSE, validation |-> rule]
          /\ record' = createObject(isArgs, IF isArgs THEN "" ELSE "Person", layout,
                                    [computed |-> FALSE, validation |-> rule], FALSE)
          /\ tpc' = IF isArgs THEN "args" ELSE "object"
    /\ UNCHANGED <<design, layout, filterVars, validationVars, extVars>>

NextTypes == ComposeObject \/ ComposeArgs \/ ComposeWith

SpecTypes == InitTypes /\ [][NextTypes]_vars

(***************************************************************************)
(* Properties of the record composer.                                      *)
(***************************************************************************)
Composed == tpc \in {"object", "args"}

RECURSIVE UpdateShapeNullable(_)
\* No field of the input object type, nor of an input object type it holds as
\* a field, is NonNull.
UpdateShapeNullable(type) ==
    type.k = "input" =>
        \A i \in 1..Len(type.fields) :
            /\ type.fields[i].type.k # "nonnull"
            /\ UpdateShapeNullable(type.fields[i].type)

\* C1 as stated: every field of the update shape of a record from GqlObject or
\* from GqlArgs is nullable.
C1_UpdateAlwaysNullable ==
    Composed => UpdateShapeNullable(record.graphQLUpdateType)

\* C1 amended: every field of the update shape of a record from GqlObject is
\* nullable, also where the create shape has it non-null.
C1_UpdateNullableForObjects ==
    tpc = "object" => UpdateShapeNullable(record.graphQLUpdateType)

\* C1 witness: an entity with a field that is non-null in the create shape and
\* nullable in the update shape.
C1_Witness ==
    /\ tpc = "object"
    /\ \E i \in 1..Len(record.graphQLInputType.fields) :
          /\ record.graphQLInputType.fields[i].type.k = "nonnull"
          /\ record.graphQLUpdateType.fields[i].name = record.graphQLInputType.fields[i].name
          /\ record.graphQLUpdateType.fields[i].type.k # "nonnull"

RECURSIVE SortableLeaves(_, _)
RECURSIVE LeavesOf(_, _)
\* The dotted paths to the sortable leaves below one declared field.
LeavesOf(d, path) ==
    CASE d.kind = "string" -> IF d.sortable THEN <<path>> ELSE <<>>
      [] d.kind = "array" -> LeavesOf(d.of, path)
      [] d.kind = "object" -> SortableLeaves(d.fields, path \o ".")
      [] OTHER -> <<>>

\* The dotted paths to the sortable leaves of declared fields, in layout order.
SortableLeaves(decls, prefix) ==
    IF Len(decls) = 0 THEN <<>>
    ELSE LeavesOf(decls[1].d, prefix \o decls[1].name) \o SortableLeaves(Tail(decls), prefix)

SortPathsExpected(decls) ==
    LET leaves == SortableLeaves(decls, "")
    IN IF Len(leaves) = 0 THEN JBool(FALSE)
       ELSE JList([i \in 1..Len(leaves) |-> JStr(leaves[i])])

ExampleSortPaths == JList(<<JStr("name"), JStr("address.city")>>)

\* C7: the sort paths of a record are the dotted paths from its root to every
\* sortable leaf, in layout order; the layout {name: sortable, address: {city:
\* sortable, zip: not sortable}} gives ["name", "address.city"]; a record
\* without a sortable field has none.
C7_SortPaths ==
    Composed =>
        /\ record.sortable = SortPathsExpected(design)
        /\ design = ExampleDesign => record.sortable = ExampleSortPaths
        /\ ~Truthy(record.sortable) <=> Len(SortableLeaves(design, "")) = 0

\* C7 witness: the example layout, composed.
C7_Witness ==
    /\ tpc = "object"
    /\ design = ExampleDesign
    /\ record.sortable = ExampleSortPaths

(***************************************************************************)
(* Descriptors with identity.  The rule objects, property maps and rule    *)
(* lists of the descriptors live in a heap of cells; a cell is an object   *)
(* or an array whose entries are primitives or references to other cells.  *)
(* A descriptor instance is an entry of `descs`; its identity is its       *)
(* index, and its options.validation is the address `rule`.                *)
(***************************************************************************)
MaxWraps == 2
MaxReads == 2

Ref(a) == [t |-> "ref", a |-> a]

\* A new object or array: its address is the length of the heap returned.
Alloc(h, cell) == Append(h, cell)

\* const x = value, then body: the value is computed once and named.
With(value, Body(_)) == CHOOSE r \in {Body(x) : x \in {value}} : TRUE

\* delete o[k] for every k of keys
Without(o, keys) == JObj(SelectSeq(o.kv, LAMBDA e : e.k \notin keys))

RECURSIVE Deref(_, _)
\* The content reachable from a value, references followed.
Deref(h, v) ==
    LET c == IF v.t = "ref" THEN h[v.a] ELSE v
    IN CASE c.t = "obj" -> JObj([i \in 1..Len(c.kv) |-> KV(c.kv[i].k, Deref(h, c.kv[i].v))])
         [] c.t = "list" -> JList([i \in 1..Len(c.items) |-> Deref(h, c.items[i])])
         [] OTHER -> c

\* new GqlBase(options, ...) with options.validation at address `rule`; the
\* memoized schemas of a record, _validation and _updateValidation, start unset.
GqlBaseIn(st, computed, rule, sortable, graphQLType, graphQLInputType, graphQLUpdateType) ==
    LET simple == graphQLType.k \in {"scalar", "enum"}
        gql == [rule |-> rule,
                computed |-> computed,
                sortable |-> sortable,
                graphQLType |-> graphQLType,
                graphQLInputType |-> IF simple /\ graphQLInputType = NoType
                                     THEN graphQLType ELSE graphQLInputType,
                graphQLUpdateType |-> IF simple /\ graphQLUpdateType = NoType
                                      THEN graphQLType ELSE graphQLUpdateType,
                validation |-> 0,
                updateValidation |-> 0]
    IN [heap |-> st.heap, descs |-> Append(st.descs, gql), id |-> Len(st.descs) + 1]

\* get outputType, read through the descriptor's rule as it is now
outputTypeIn(h, gql) ==
    IF Truthy(Get(h[gql.rule], "optional")) THEN gql.graphQLType ELSE NonNull(gql.graphQLType)

\* get inputType
inputTypeIn(h, gql) ==
    IF Truthy(Get(h[gql.rule], "optional"))
    THEN gql.graphQLInputType ELSE NonNull(gql.graphQLInputType)

\* GqlString(options): the rule is a new object.
GqlStringIn(st, options) ==
    With(Alloc(st.heap, Merge(Obj1("type", JStr("string")), options.validation)),
         LAMBDA h :
             GqlBaseIn([heap |-> h, descs |-> st.descs], options.computed, Len(h),
                       JBool(options.sortable = TRUE), GraphQLString, NoType, NoType))

\* GqlArray(item): `items` is item.validations, a new array holding the item's
\* own rule object.
GqlArrayIn(st, id) ==
    LET gql == st.descs[id]
        h1 == Alloc(st.heap, JList(<<Ref(gql.rule)>>))
    IN With(Alloc(h1, Obj2("items", Ref(Len(h1)), "type", JStr("array"))),
            LAMBDA h2 :
                GqlBaseIn([heap |-> h2, descs |-> st.descs], FALSE, Len(h2), gql.sortable,
                          ListOf(outputTypeIn(st.heap, gql)), ListOf(inputTypeIn(st.heap, gql)),
                          ListOf(inputTypeIn(st.heap, gql))))

\* GqlNullable returning a new descriptor with a copy of the rule.
GqlNullableClone(st, id) ==
    IF id = 0 THEN [heap |-> st.heap, descs |-> st.descs, id |-> 0]
    ELSE [heap |-> Alloc(st.heap,
                         Put(Spread(st.heap[st.descs[id].rule]), "optional", JBool(TRUE))),
          descs |-> Append(st.descs, [st.descs[id] EXCEPT !.rule = Len(st.heap) + 1]),
          id |-> Len(st.descs) + 1]

\* GqlNullable(item): validation.optional = true on the rule of the descriptor
\* given, which is returned.
GqlNullableIn(st, id) ==
    IF id = 0 THEN [heap |-> st.heap, descs |-> st.descs, id |-> 0]
    ELSE [heap |-> [st.heap EXCEPT ![st.descs[id].rule] = Put(@, "optional", JBool(TRUE))],
          descs |-> st.descs,
          id |-> id]

\* The fields of a layout that are present, and those that are not computed.
PresentIn(item) == SelectSeq(item, LAMBDA e : e.gql # 0)
WritableIn(ds, item) == SelectSeq(PresentIn(item), LAMBDA e : ~ds[e.gql].computed)

\* The rules noted for a field without the adjustment for parameter lists.
FieldValidationsShared(h, isArgs, gql) ==
    [heap |-> Alloc(h, JList(<<Ref(gql.rule)>>)), a |-> Len(h) + 1]

\* gql.validations with optional: false written to the descriptor's own rule.
FieldValidationsInPlace(h, isArgs, gql) ==
    IF isArgs /\ Get(h[gql.rule], "optional") # JBool(TRUE)
    THEN [heap |-> Alloc([h EXCEPT ![gql.rule] = Put(@, "optional", JBool(FALSE))],
                         JList(<<Ref(gql.rule)>>)),
          a |-> Len(h) + 1]
    ELSE [heap |-> Alloc(h, JList(<<Ref(gql.rule)>>)), a |-> Len(h) + 1]

\* gql.validations, and for a parameter list a copy of the primary rule with
\* optional: false unless the rule is optional: the address of the rule list.
FieldValidationsIn(h, isArgs, gql) ==
    IF isArgs /\ Get(h[gql.rule], "optional") # JBool(TRUE)
    THEN [heap |-> Alloc(Alloc(h, Put(Spread(h[gql.rule]), "optional", JBool(FALSE))),
                         JList(<<Ref(Len(h) + 1)>>)),
          a |-> Len(h) + 2]
    ELSE [heap |-> Alloc(h, JList(<<Ref(gql.rule)>>)), a |-> Len(h) + 1]

RECURSIVE NoteValidations(_, _, _, _, _, _)
\* validation.properties[field] = fieldValidations, for the fields from i onwards.
NoteValidations(h, ds, isArgs, writable, i, properties) ==
    IF i > Len(writable) THEN h
    ELSE With(FieldValidationsIn(h, isArgs, ds[writable[i].gql]),
              LAMBDA f :
                  With([f.heap EXCEPT ![properties] = Put(@, writable[i].name, Ref(f.a))],
                       LAMBDA h1 : NoteValidations(h1, ds, isArgs, writable, i + 1, properties)))

\* createObject(isArgs, name, item, undefined, noValidation)
createObjectIn(st, isArgs, name, item, noValidation) ==
    LET present == PresentIn(item)
        writable == WritableIn(st.descs, item)
        properties == Len(st.heap) + 1
        validation == Len(st.heap) + 2
        h2 == Alloc(Alloc(st.heap, EmptyObj),
                    Obj3("properties", Ref(properties), "strict", JBool(TRUE),
                         "type", JStr("object")))
        fields == [i \in 1..Len(present) |->
                      Field(present[i].name, outputTypeIn(st.heap, st.descs[present[i].gql]))]
        inputFields == [i \in 1..Len(writable) |->
                           Field(writable[i].name, inputTypeIn(st.heap, st.descs[writable[i].gql]))]
        updateFields == [i \in 1..Len(writable) |->
                            Field(writable[i].name,
                                  UpdateFieldType(isArgs, updateType(st.descs[writable[i].gql])))]
        sort == CollectSort([i \in 1..Len(present) |->
                                [name |-> present[i].name, gql |-> st.descs[present[i].gql]]], 1)
    IN With(NoteValidations(h2, st.descs, isArgs, writable, 1, properties),
            LAMBDA h3 :
                With(IF noValidation THEN Alloc(h3, Obj1("type", JStr("object"))) ELSE h3,
                     LAMBDA h4 :
                         GqlBaseIn([heap |-> h4, descs |-> st.descs], FALSE,
                                   IF noValidation THEN Len(h4) ELSE validation,
                                   IF Len(sort) > 0 THEN JList(sort) ELSE JBool(FALSE),
                                   ObjectType(name, fields),
                                   InputObjectType(name \o "Input", inputFields),
                                   InputObjectType(name \o "Update", updateFields))))

\* get validation computing the schema on every access.
validationAlways(st, id) ==
    LET gql == st.descs[id]
        own == st.heap[gql.rule]
        properties == Get(own, "properties")
        h == Alloc(st.heap,
                   Put(Merge(Without(Spread(own), {"properties", "strict", "type"}),
                             IF properties.t = "ref" THEN Spread(st.heap[properties.a])
                             ELSE EmptyObj),
                       "$$strict", JBool(TRUE)))
    IN [heap |-> h, descs |-> [st.descs EXCEPT ![id].validation = Len(h)],
        a |-> Len(h), ran |-> TRUE]

\* get validation: computed when _validation is unset, then kept.
validationIn(st, id) ==
    LET gql == st.descs[id]
    IN IF gql.validation # 0
       THEN [heap |-> st.heap, descs |-> st.descs, a |-> gql.validation, ran |-> FALSE]
       ELSE LET own == st.heap[gql.rule]
                properties == Get(own, "properties")
                h == Alloc(st.heap,
                           Put(Merge(Without(Spread(own), {"properties", "strict", "type"}),
                                     IF properties.t = "ref" THEN Spread(st.heap[properties.a])
                                     ELSE EmptyObj),
                               "$$strict", JBool(TRUE)))
            IN [heap |-> h, descs |-> [st.descs EXCEPT ![id].validation = Len(h)],
                a |-> Len(h), ran |-> TRUE]

\* A rule or property map handed on as it is, without a copy.
CopyInPlace(h, a) == [heap |-> h, a |-> a]

\* { ...rule }, { ...properties }, { ...schema }: a new object with the same entries.
Copy(h, a) == [heap |-> Alloc(h, Spread(h[a])), a |-> Len(h) + 1]

RECURSIVE convertRuleForUpdateIn(_, _)
RECURSIVE ConvertPropsIn(_, _, _)

\* properties[prop] = convertRuleForUpdate(properties[prop]) for the keys of the
\* object at p, from key i onwards.
ConvertPropsIn(h, p, i) ==
    IF i > Len(h[p].kv) THEN [err |-> "none", heap |-> h, v |-> Ref(p)]
    ELSE With(convertRuleForUpdateIn(h, h[p].kv[i].v),
              LAMBDA c :
                  IF c.err # "none" THEN c
                  ELSE With([c.heap EXCEPT ![p] = Put(@, h[p].kv[i].k, c.v)],
                            LAMBDA h1 : ConvertPropsIn(h1, p, i + 1)))

\* convertRuleForUpdate(value) on the heap: the value returned and the heap left.
convertRuleForUpdateIn(h, value) ==
    IF value.t \in {"null", "undefined"} THEN [err |-> "TypeError", heap |-> h, v |-> Undef]
    ELSE IF value.t # "ref" THEN [err |-> "none", heap |-> h, v |-> value]
    ELSE IF h[value.a].t = "list"
    THEN LET items == h[value.a].items
         IN With(convertRuleForUpdateIn(h, IF Len(items) > 0 THEN items[1] ELSE Undef),
                 LAMBDA c :
                     IF c.err # "none" THEN c
                     ELSE IF c.v = items[1] THEN [c EXCEPT !.v = value]
                     ELSE [err |-> "none",
                           heap |-> Alloc(c.heap, JList(<<c.v>> \o Rest(items))),
                           v |-> Ref(Len(c.heap) + 1)])
    ELSE IF ~Truthy(Get(h[value.a], "type")) THEN [err |-> "none", heap |-> h, v |-> value]
    ELSE With(Copy(h, value.a),
              LAMBDA copy :
                  LET rule == copy.a
                      h1 == IF Get(copy.heap[rule], "optional") # JBool(FALSE)
                            THEN [copy.heap EXCEPT ![rule] = Put(@, "optional", JBool(TRUE))]
                            ELSE copy.heap
                      properties == Get(h1[rule], "properties")
                  IN IF Get(h1[rule], "type") # JStr("object") \/ properties.t # "ref"
                     THEN [err |-> "none", heap |-> h1, v |-> Ref(rule)]
                     ELSE With(Copy(h1, properties.a),
                               LAMBDA pcopy :
                                   With(ConvertPropsIn(pcopy.heap, pcopy.a, 1),
                                        LAMBDA c :
                                            IF c.err # "none" THEN c
                                            ELSE [err |-> "none",
                                                  heap |-> [c.heap EXCEPT ![rule] =
                                                               Put(@, "properties", Ref(pcopy.a))],
                                                  v |-> Ref(rule)])))

\* convertForUpdate(schema) for the schema at address a.
convertForUpdateIn(h, a) ==
    With(Copy(h, a), LAMBDA copy : ConvertPropsIn(copy.heap, copy.a, 1))

\* get updateValidation: convertForUpdate(this.validation), computed when
\* _updateValidation is unset, then kept.
updateValidationIn(st, id) ==
    IF st.descs[id].updateValidation # 0
    THEN [heap |-> st.heap, descs |-> st.descs, a |-> st.descs[id].updateValidation,
          ran |-> FALSE, before |-> st.heap]
    ELSE With(validationIn(st, id),
              LAMBDA v :
                  With(convertForUpdateIn(v.heap, v.a),
                       LAMBDA c :
                           [heap |-> c.heap,
                            descs |-> [v.descs EXCEPT ![id].updateValidation = c.v.a],
                            a |-> c.v.a, ran |-> TRUE, before |-> v.heap]))

(***************************************************************************)
(* The declared layouts of the descriptor specification, built in the heap.*)
(***************************************************************************)
RECURSIVE BuildIn(_, _)
RECURSIVE BuildMembers(_, _, _, _)

\* The layout a sequence of declarations evaluates to, left to right.
BuildMembers(st, decls, i, acc) ==
    IF i > Len(decls) THEN [heap |-> st.heap, descs |-> st.descs, members |-> acc]
    ELSE With(BuildIn(st, decls[i].d),
              LAMBDA b :
                  With(Append(acc, [name |-> decls[i].name, gql |-> b.id]),
                       LAMBDA sofar : BuildMembers(b, decls, i + 1, sofar)))

\* The descriptor a declaration evaluates to: its identity, or 0 for undefined.
BuildIn(st, d) ==
    IF d.kind = "absent" THEN [heap |-> st.heap, descs |-> st.descs, id |-> 0]
    ELSE With(CASE d.kind = "string" ->
                       GqlStringIn(st, [sortable |-> d.sortable, computed |-> d.computed,
                                        validation |-> EmptyObj])
                [] d.kind = "array" ->
                       With(BuildIn(st, d.of), LAMBDA b : GqlArrayIn(b, b.id))
                [] d.kind = "object" ->
                       With(BuildMembers(st, d.fields, 1, <<>>),
                            LAMBDA m : createObjectIn(m, FALSE, d.name, m.members, FALSE)),
              LAMBDA gql : IF d.nullable THEN GqlNullableIn(gql, gql.id) ELSE gql)

NullableString == DString(FALSE, FALSE, TRUE)

Entity == DObject("Item", <<Decl("city", PlainString)>>, FALSE)

\* A required name beside a required entity, a nullable name beside a required
\* or a nullable entity, a required name beside a list.
RecordDesigns ==
    {<<Decl("name", PlainString), Decl("data", Entity)>>,
     <<Decl("name", NullableString), Decl("data", Entity)>>,
     <<Decl("name", NullableString), Decl("data", [Entity EXCEPT !.nullable = TRUE])>>,
     <<Decl("name", PlainString), Decl("data", DArray(PlainString, FALSE))>>}

(***************************************************************************)
(* The descriptor specification: the fields of a layout exist, the layout  *)
(* is composed into an entity or a parameter list, any descriptor may be   *)
(* wrapped as nullable at any time, and the schemas of the record are read.*)
(***************************************************************************)
InitRecord ==
    /\ \E d \in RecordDesigns :
          \E b \in {BuildMembers([heap |-> <<>>, descs |-> <<>>], d, 1, <<>>)} :
             /\ heap = b.heap
             /\ descs = b.descs
             /\ members = b.members
    /\ rec = 0
    /\ nullableCall = NoCall
    /\ accesses = NoAccesses
    /\ runs = NoRuns
    /\ snapshot = NoSnapshot
    /\ IdleFilter
    /\ IdleValidation
    /\ IdleTypes
    /\ IdleCalls
    /\ IdleGrammar
    /\ IdleMethods
    /\ IdleCollection

Here == [heap |-> heap, descs |-> descs]

\* The record of one more access that returned the address a.
Accessed(log, a) ==
    [n |-> log.n + 1,
     first |-> IF log.n = 0 THEN a ELSE log.first,
     last |-> a,
     wrapsFirst |-> IF log.n = 0 THEN nullableCall.count ELSE log.wrapsFirst,
     wrapsLast |-> nullableCall.count]

\* GqlObject('Person', members)
ComposeEntity ==
    /\ rec = 0
    /\ \E c \in {createObjectIn(Here, FALSE, "Person", members, FALSE)} :
          /\ heap' = c.heap
          /\ descs' = c.descs
          /\ rec' = c.id
    /\ snapshot' = [snapshot EXCEPT !.compose = heap, !.args = FALSE]
    /\ UNCHANGED <<members, nullableCall, accesses, runs, filterVars, validationVars, typeVars,
                   callVars, grammarVars, methodVars,
                   collectionVars>>

\* GqlArgs(members)
ComposeParameters ==
    /\ rec = 0
    /\ \E c \in {createObjectIn(Here, TRUE, "", members, FALSE)} :
          /\ heap' = c.heap
          /\ descs' = c.descs
          /\ rec' = c.id
    /\ snapshot' = [snapshot EXCEPT !.compose = heap, !.args = TRUE]
    /\ UNCHANGED <<members, nullableCall, accesses, runs, filterVars, validationVars, typeVars,
                   callVars, grammarVars, methodVars,
                   collectionVars>>

\* GqlNullable(d) for a descriptor of the layout, a nested one or the record.
Nullable ==
    /\ nullableCall.count < MaxWraps
    /\ \E d \in 1..Len(descs) :
          \E r \in {GqlNullableIn(Here, d)} :
             /\ heap' = r.heap
             /\ descs' = r.descs
             /\ nullableCall' = [item |-> d, result |-> r.id, previous |-> nullableCall.item,
                                  count |-> nullableCall.count + 1]
    /\ UNCHANGED <<members, rec, accesses, runs, snapshot, filterVars, validationVars, typeVars,
                   callVars, grammarVars, methodVars,
                   collectionVars>>

\* record.validation
AccessValidation ==
    /\ rec # 0
    /\ accesses.validation.n < MaxReads
    /\ \E r \in {validationIn(Here, rec)} :
          /\ heap' = r.heap
          /\ descs' = r.descs
          /\ accesses' = [accesses EXCEPT !.validation = Accessed(@, r.a)]
          /\ runs' = [runs EXCEPT !.validation = IF r.ran THEN @ + 1 ELSE @]
    /\ UNCHANGED <<members, rec, nullableCall, snapshot, filterVars, validationVars, typeVars,
                   callVars, grammarVars, methodVars,
                   collectionVars>>

\* record.updateValidation
AccessUpdateValidation ==
    /\ rec # 0
    /\ accesses.updateValidation.n < MaxReads
    /\ \E r \in {updateValidationIn(Here, rec)} :
          /\ heap' = r.heap
          /\ descs' = r.descs
          /\ accesses' = [accesses EXCEPT !.updateValidation = Accessed(@, r.a)]
          /\ runs' = [runs EXCEPT
                         !.updateValidation = IF r.ran THEN @ + 1 ELSE @,
                         !.validation = IF descs'[rec].validation # descs[rec].validation
                                        THEN @ + 1 ELSE @]
          /\ snapshot' = IF r.ran
                         THEN [snapshot EXCEPT !.convert = r.before, !.converted = r.heap]
                         ELSE snapshot
    /\ UNCHANGED <<members, rec, nullableCall, filterVars, validationVars, typeVars,
                   callVars, grammarVars, methodVars,
                   collectionVars>>

NextRecord ==
    \/ ComposeEntity
    \/ ComposeParameters
    \/ Nullable
    \/ AccessValidation
    \/ AccessUpdateValidation

SpecRecord == InitRecord /\ [][NextRecord]_vars

(***************************************************************************)
(* Properties of descriptors, wrapping and the memoized schemas.           *)
(***************************************************************************)
\* The identities through which the layout holds the descriptor d.
Holders(d) == {i \in 1..Len(members) : members[i].gql = d}

\* After GqlNullable(item): the value returned is the instance given, its own
\* rule is optional, and its read and create types are nullable for the caller
\* and for every field of the layout holding it.
NullableReturnsInstance ==
    nullableCall.item # 0 =>
        /\ nullableCall.result = nullableCall.item
        /\ Get(heap[descs[nullableCall.item].rule], "optional") = JBool(TRUE)
        /\ outputTypeIn(heap, descs[nullableCall.result]).k # "nonnull"
        /\ inputTypeIn(heap, descs[nullableCall.result]).k # "nonnull"
        /\ \A i \in Holders(nullableCall.item) :
              /\ outputTypeIn(heap, descs[members[i].gql]).k # "nonnull"
              /\ inputTypeIn(heap, descs[members[i].gql]).k # "nonnull"

\* A GqlNullable call creates no descriptor and no object, writes optional: true
\* into the rule of its argument and nothing else, and changes nothing when the
\* argument was wrapped by the call before or is optional already.
NullableInPlace ==
    nullableCall'.count = nullableCall.count + 1 =>
        LET rule == descs[nullableCall'.item].rule
        IN /\ descs' = descs
           /\ Len(heap') = Len(heap)
           /\ heap' = [heap EXCEPT ![rule] = Put(@, "optional", JBool(TRUE))]
           /\ nullableCall'.previous = nullableCall'.item => heap' = heap
           /\ Get(heap[rule], "optional") = JBool(TRUE) => heap' = heap

ComputedOnce(log, count, memo) ==
    /\ count <= 1
    /\ log.n > 0 =>
          /\ count = 1
          /\ log.last = log.first
          /\ memo = log.first

\* C12: validation and updateValidation are each computed at most once per
\* record; every later access returns the object the first access returned,
\* also when a field descriptor was wrapped as nullable between the accesses.
C12_SchemasComputedOnce ==
    rec # 0 =>
        /\ ComputedOnce(accesses.validation, runs.validation, descs[rec].validation)
        /\ ComputedOnce(accesses.updateValidation, runs.updateValidation,
                        descs[rec].updateValidation)

\* C12 witness: both schemas read twice, a field of the record wrapped as
\* nullable after the first and before the last access of each.
C12_Witness ==
    /\ rec # 0
    /\ accesses.validation.n = 2
    /\ accesses.validation.wrapsFirst = 0
    /\ accesses.updateValidation.n = 2
    /\ accesses.updateValidation.wrapsFirst = 0
    /\ nullableCall.count = 1
    /\ accesses.validation.wrapsLast = 1
    /\ accesses.updateValidation.wrapsLast = 1
    /\ Holders(nullableCall.item) # {}

\* C19: convertForUpdate leaves its input as it was: every object and array that
\* existed before the call has the content it had, so the create validation the
\* record memoized reads as before.
C19_ConvertLeavesInput ==
    snapshot.converted # <<>> =>
        /\ Len(snapshot.converted) >= Len(snapshot.convert)
        /\ SubSeq(snapshot.converted, 1, Len(snapshot.convert)) = snapshot.convert
        /\ Deref(snapshot.converted, Ref(descs[rec].validation))
               = Deref(snapshot.convert, Ref(descs[rec].validation))

\* C19 witness: the update validation of a record with a nested entity was
\* derived and differs from the create validation.
C19_Witness ==
    /\ snapshot.converted # <<>>
    /\ descs[rec].updateValidation # descs[rec].validation
    /\ LET create == Deref(snapshot.converted, Ref(descs[rec].validation))
           update == Deref(snapshot.converted, Ref(descs[rec].updateValidation))
       IN /\ update # create
          /\ Get(Get(create, "data").items[1], "properties").t = "obj"
          /\ Get(Get(Get(Get(create, "data").items[1], "properties"), "city").items[1],
                 "optional") = Undef
          /\ Get(Get(Get(Get(update, "data").items[1], "properties"), "city").items[1],
                 "optional") = JBool(TRUE)

\* The primary rule noted under a name in the schema or property map at address a.
PrimaryRule(h, a, name) == h[h[Get(h[a], name).a].items[1].a]

\* C20: in a parameter list, a field whose primary rule is not explicitly
\* optional has a primary rule with optional === false in validation, an
\* explicitly optional field stays optional; updateValidation keeps both, and
\* the fields inside a required entity argument are optional there.
C20_ParametersRequired ==
    (rec # 0 /\ snapshot.args) =>
        \A i \in 1..Len(members) :
            (members[i].gql # 0 /\ ~descs[members[i].gql].computed) =>
                LET explicit ==
                        Get(snapshot.compose[descs[members[i].gql].rule], "optional") = JBool(TRUE)
                    expected == IF explicit THEN JBool(TRUE) ELSE JBool(FALSE)
                IN /\ descs[rec].validation # 0 =>
                         Get(PrimaryRule(heap, descs[rec].validation, members[i].name),
                             "optional") = expected
                   /\ descs[rec].updateValidation # 0 =>
                         LET u == PrimaryRule(heap, descs[rec].updateValidation, members[i].name)
                         IN /\ Get(u, "optional") = expected
                            /\ (~explicit /\ Get(u, "type") = JStr("object")) =>
                                  \A j \in 1..Len(heap[Get(u, "properties").a].kv) :
                                      Get(PrimaryRule(heap, Get(u, "properties").a,
                                                      heap[Get(u, "properties").a].kv[j].k),
                                          "optional") = JBool(TRUE)

\* C20 witness: a parameter list with an optional name and a required entity,
\* both schemas read.
C20_Witness ==
    /\ rec # 0
    /\ snapshot.args
    /\ descs[rec].validation # 0
    /\ descs[rec].updateValidation # 0
    /\ Get(PrimaryRule(heap, descs[rec].validation, "name"), "optional") = JBool(TRUE)
    /\ Get(PrimaryRule(heap, descs[rec].validation, "data"), "optional") = JBool(FALSE)
    /\ Get(PrimaryRule(heap, descs[rec].updateValidation, "data"), "type") = JStr("object")

(***************************************************************************)
(* Concurrent requests.  Each request handler calls toMongoFilter on its   *)
(* own filter value; the calls are taken apart into the entry (the default *)
(* accumulator is created), one step per key of the outer loop, and the    *)
(* return, and the steps of different calls interleave freely.  The        *)
(* runtime runs each call to completion, which is one of the interleavings.*)
(* The filter values and the accumulators are objects of the heap the      *)
(* descriptors live in.                                                    *)
(***************************************************************************)
MaxCalls == 2

\* The body of the outer loop for key i of gqlFilter, on the accumulator `filter`.
FieldStep(gqlFilter, i, scope, filter, room) ==
    LET key == Keys(OrElse(gqlFilter, EmptyObj))[i]
    IN FieldLoop(Obj1(key, Get(gqlFilter, key)), 1, scope, filter, room)

\* An accumulator kept between calls: the one a call before created, if any.
SharedFilter(h, started) ==
    IF \E c \in 1..Len(started) : started[c].filter # 0
    THEN [heap |-> h,
          a |-> started[CHOOSE c \in 1..Len(started) : started[c].filter # 0].filter]
    ELSE [heap |-> Alloc(h, EmptyObj), a |-> Len(h) + 1]

\* filter = {}: the default of the parameter, evaluated at each call without one.
DefaultFilter(h, started) == [heap |-> Alloc(h, EmptyObj), a |-> Len(h) + 1]

\* The entity the requests are about, composed before any request arrives.
Served ==
    With(BuildMembers([heap |-> <<>>, descs |-> <<>>],
                      <<Decl("name", PlainString), Decl("address", Entity)>>, 1, <<>>),
         LAMBDA b : createObjectIn(b, FALSE, "Person", b.members, FALSE))

\* Filter values of requests: none, empty, fields, nested fields, groups, three
\* keys, and values that make the call throw at its first or its second key.
CallRequests ==
    {Null,
     EmptyObj,
     Obj1("age", Obj2("Gte", JNum(5), "Lte", JNum(10))),
     Obj2("name", Obj1("Eq", JStr("Berlin")),
          "address", Obj1("city", Obj1("Eq", JStr("Berlin")))),
     Obj2("address", Obj1("city", Obj1("Neq", JStr("Berlin"))), "name", Obj1("Exists", Null)),
     Obj1("And", JList(<<Obj1("age", Obj1("Lt", JNum(18))), EmptyObj>>)),
     JObj(<<KV("age", Obj1("Gt", JNum(65))),
            KV("Or", JList(<<Obj1("name", Obj1("RegEx", JStr("a")))>>)),
            KV("address", Obj1("city", Obj1("In", Null)))>>),
     Obj1("Or", JNum(5)),
     Obj2("age", Obj1("Eq", JNum(5)), "And", JBool(TRUE))}

Call(address) ==
    [gqlFilter |-> address, filter |-> 0, i |-> 0, state |-> "called", returned |-> 0,
     err |-> "none"]

InitCalls ==
    /\ \E given \in [1..MaxCalls -> CallRequests] :
          /\ heap = Served.heap \o given
          /\ calls = [c \in 1..MaxCalls |-> Call(Len(Served.heap) + c)]
    /\ descs = Served.descs
    /\ members = <<>>
    /\ rec = Served.id
    /\ nullableCall = NoCall
    /\ accesses = NoAccesses
    /\ runs = NoRuns
    /\ snapshot = [NoSnapshot EXCEPT !.compose = heap]
    /\ IdleFilter
    /\ IdleValidation
    /\ IdleTypes
    /\ IdleGrammar
    /\ IdleMethods
    /\ IdleCollection

\* toMongoFilter(args.filter) is entered: scope and accumulator take their defaults.
Enter ==
    \E c \in 1..Len(calls) :
        /\ calls[c].state = "called"
        /\ \E f \in {DefaultFilter(heap, calls)} :
              /\ heap' = f.heap
              /\ calls' = [calls EXCEPT ![c].filter = f.a, ![c].i = 1, ![c].state = "loop"]
        /\ UNCHANGED <<descs, members, rec, nullableCall, accesses, runs, snapshot,
                       filterVars, validationVars, typeVars, grammarVars, methodVars,
                   collectionVars>>

\* One pass of the outer loop of call c; an error thrown in it ends the call.
Step ==
    \E c \in 1..Len(calls) :
        /\ calls[c].state = "loop"
        /\ calls[c].i <= Len(Keys(OrElse(heap[calls[c].gqlFilter], EmptyObj)))
        /\ \E r \in {FieldStep(heap[calls[c].gqlFilter], calls[c].i, "", heap[calls[c].filter],
                               StackLimit - 1)} :
              IF r.err = "none"
              THEN /\ heap' = [heap EXCEPT ![calls[c].filter] = r.filter]
                   /\ calls' = [calls EXCEPT ![c].i = @ + 1]
              ELSE /\ heap' = heap
                   /\ calls' = [calls EXCEPT ![c].state = "thrown", ![c].err = r.err]
        /\ UNCHANGED <<descs, members, rec, nullableCall, accesses, runs, snapshot,
                       filterVars, validationVars, typeVars, grammarVars, methodVars,
                   collectionVars>>

\* return filter
Return ==
    \E c \in 1..Len(calls) :
        /\ calls[c].state = "loop"
        /\ calls[c].i > Len(Keys(OrElse(heap[calls[c].gqlFilter], EmptyObj)))
        /\ calls' = [calls EXCEPT ![c].state = "returned", ![c].returned = calls[c].filter]
        /\ UNCHANGED <<heap, descs, members, rec, nullableCall, accesses, runs, snapshot,
                       filterVars, validationVars, typeVars, grammarVars, methodVars,
                   collectionVars>>

NextCalls ==
    \/ Enter
    \/ Step
    \/ Return

SpecCalls == InitCalls /\ [][NextCalls]_vars

(***************************************************************************)
(* Properties of concurrent toMongoFilter calls.                           *)
(***************************************************************************)
\* The filter value call c was given, as it was when the call was made.
Given(c) == snapshot.compose[calls[c].gqlFilter]

\* C13: every call that was entered has an accumulator of its own, which is not
\* an object that existed before the call; the filter values and the objects of
\* the descriptors stay as they were; a call that returned has returned its
\* accumulator, holding what the call yields when it runs alone, and a call that
\* threw has thrown what it throws when it runs alone.
C13_CallsIndependent ==
    /\ SubSeq(heap, 1, Len(snapshot.compose)) = snapshot.compose
    /\ descs = Served.descs
    /\ \A c \in 1..Len(calls) :
          /\ calls[c].filter # 0 =>
                /\ calls[c].filter > Len(snapshot.compose)
                /\ \A o \in 1..Len(calls) : o # c => calls[o].filter # calls[c].filter
          /\ calls[c].state = "returned" =>
                /\ calls[c].returned = calls[c].filter
                /\ CompileFilter(Given(c)).err = "none"
                /\ heap[calls[c].returned] = CompileFilter(Given(c)).filter
          /\ calls[c].state = "thrown" => calls[c].err = CompileFilter(Given(c)).err

\* C13 witness: two calls with different filter values of several keys have both
\* returned, the second one entered while the first was in its loop.
C13_Witness ==
    /\ Len(calls) >= 2
    /\ calls[1].state = "returned"
    /\ calls[2].state = "returned"
    /\ calls[1].filter > calls[2].filter
    /\ Len(Keys(Given(1))) >= 2
    /\ Len(Keys(Given(2))) >= 3
    /\ heap[calls[1].returned] # heap[calls[2].returned]
    /\ HasKey(heap[calls[2].returned], "$or")
    /\ HasKey(heap[calls[1].returned], "address.city")

(***************************************************************************)
(* The filter grammar (src/src/filterTypes.ts, createObjectFilter in       *)
(* src/src/filter.ts).  A GraphQL type whose fields are given as a thunk   *)
(* keeps the thunk's arguments in `getter`; getFields evaluates it.  The   *)
(* type a thunk refers to as itself is named by TypeRef.                   *)
(***************************************************************************)
EnumType(name) == [k |-> "enum", name |-> name]
TypeRef(name) == [k |-> "ref", name |-> name]
GraphQLInt == ScalarType("Int")
GraphQLFloat == ScalarType("Float")
GraphQLBoolean == ScalarType("Boolean")
GraphQLID == ScalarType("ID")

\* { description: '...' }: options without validation, sortable or computed; the
\* spread of the missing validation adds nothing.
Described == [sortable |-> FALSE, computed |-> FALSE, validation |-> EmptyObj]

\* GqlInt(options)
GqlInt(options) ==
    GqlBase([computed |-> options.computed,
             validation |-> Put(Put(Spread(options.validation), "integer", JBool(TRUE)),
                                "type", JStr("number"))],
            JBool(options.sortable = TRUE), GraphQLInt, NoType, NoType)

\* GqlFloat(options)
GqlFloat(options) ==
    GqlBase([computed |-> options.computed,
             validation |-> Put(Put(Spread(options.validation), "integer", JBool(FALSE)),
                                "type", JStr("number"))],
            JBool(options.sortable = TRUE), GraphQLFloat, NoType, NoType)

\* GqlBoolean(options)
GqlBoolean(options) ==
    GqlBase([computed |-> options.computed,
             validation |-> Put(Spread(options.validation), "type", JStr("boolean"))],
            JBool(options.sortable = TRUE), GraphQLBoolean, NoType, NoType)

Entry(name, gql) == [name |-> name, gql |-> gql]

\* A factory handed to createStandardFilter: a function of the options.
FactoryOf(Gql(_)) == [options \in {Described} |-> Gql(options)]

\* createStandardFilter(factory): the layout of the operators, in key order.
createStandardFilter(factory) ==
    <<Entry("Eq", GqlNullable(factory[Described])),
      Entry("Exists", GqlNullable(GqlBoolean(Described))),
      Entry("Gt", GqlNullable(factory[Described])),
      Entry("Gte", GqlNullable(factory[Described])),
      Entry("In", GqlNullable(GqlArray(factory[Described]))),
      Entry("Lt", GqlNullable(factory[Described])),
      Entry("Lte", GqlNullable(factory[Described])),
      Entry("Neq", GqlNullable(factory[Described])),
      Entry("Nin", GqlNullable(GqlArray(factory[Described])))>>

\* The operators on strings without the pattern match.
createStringFilterStandard == createStandardFilter(FactoryOf(GqlString))

\* createStringFilter()
createStringFilter ==
    createStandardFilter(FactoryOf(GqlString)) \o <<Entry("RegEx", GqlNullable(GqlString(Described)))>>

GqlBooleanFilter == GqlNullable(GqlObject("BooleanFilter", createStandardFilter(FactoryOf(GqlBoolean))))
GqlFloatFilter == GqlNullable(GqlObject("FloatFilter", createStandardFilter(FactoryOf(GqlFloat))))
GqlIntFilter == GqlNullable(GqlObject("IntFilter", createStandardFilter(FactoryOf(GqlInt))))
GqlStringFilter == GqlNullable(GqlObject("StringFilter", createStringFilter))

\* fields: () => fieldGetter(fields, mode, type)
Thunk(type, mode, name) ==
    [k |-> type.k, name |-> type.name, fields |-> type.fields,
     getter |-> [mode |-> mode, name |-> name]]

\* fields[name] = { type }
SetField(fields, name, type) ==
    IF \E i \in 1..Len(fields) : fields[i].name = name
    THEN [i \in 1..Len(fields) |-> IF fields[i].name = name THEN Field(name, type) ELSE fields[i]]
    ELSE Append(fields, Field(name, type))

\* The fieldGetter of createObjectFilter, `name` being the name of the filter.
AndOrGetter(fields, mode, type, name) ==
    IF mode = "input" /\ type.name = name \o "Input"
    THEN SetField(SetField(fields, "And", ListOf(NonNull(TypeRef(type.name)))),
                  "Or", ListOf(NonNull(TypeRef(type.name))))
    ELSE fields

\* type.getFields()
getFields(type) ==
    IF "getter" \in DOMAIN type
    THEN AndOrGetter(type.fields, type.getter.mode, type, type.getter.name)
    ELSE type.fields

\* createObject with a fieldGetter: the three types take their fields from thunks.
WithFieldGetter(gql, fieldGetter, name) ==
    IF ~fieldGetter THEN gql
    ELSE [gql EXCEPT !.graphQLType = Thunk(@, "type", name),
                     !.graphQLInputType = Thunk(@, "input", name),
                     !.graphQLUpdateType = Thunk(@, "update", name)]

\* The getter handed on whatever the prefix.
FieldGetterAlways(outer) == TRUE

\* !outer && fieldGetter
FieldGetterFor(outer) == outer = ""

RECURSIVE FieldTypeOfDeep(_)
\* Every NonNull and list wrapper taken off, however many there are.
FieldTypeOfDeep(field) ==
    IF field.k \in {"nonnull", "list"} THEN FieldTypeOfDeep(field.of) ELSE field

\* outerType, innerType, fieldType: NonNull, list and NonNull taken off.
FieldTypeOf(field) ==
    LET outerType == IF field.k = "nonnull" THEN field.of ELSE field
        innerType == IF outerType.k = "list" THEN outerType.of ELSE outerType
    IN IF innerType.k = "nonnull" THEN innerType.of ELSE innerType

RECURSIVE createObjectFilter(_, _)
RECURSIVE FilterLayout(_, _, _)

\* The loop over the fields of the type, from field i onwards: filter[name] is
\* set for the kinds the function knows.
FilterLayout(type, outer, i) ==
    IF i > Len(type.fields) THEN <<>>
    ELSE LET name == type.fields[i].name
             fieldType == FieldTypeOf(type.fields[i].type)
             rest == FilterLayout(type, outer, i + 1)
         IN CASE fieldType = GraphQLString -> <<Entry(name, GqlStringFilter)>> \o rest
              [] fieldType = GraphQLInt -> <<Entry(name, GqlIntFilter)>> \o rest
              [] fieldType = GraphQLFloat -> <<Entry(name, GqlFloatFilter)>> \o rest
              [] fieldType = GraphQLBoolean -> <<Entry(name, GqlBooleanFilter)>> \o rest
              [] fieldType.k = "object" ->
                     <<Entry(name, GqlNullable(createObjectFilter(fieldType,
                                                                  outer \o type.name)))>>
                     \o rest
              [] fieldType.k = "enum" ->
                     <<Entry(name,
                             GqlNullable(GqlObject(
                                 fieldType.name \o "Filter",
                                 createStandardFilter(
                                     [options \in {Described} |->
                                         GqlBase(options, JBool(FALSE), fieldType,
                                                 NoType, NoType)]))))>>
                     \o rest
              [] OTHER -> rest

\* createObjectFilter(type, outer)
createObjectFilter(type, outer) ==
    LET name == outer \o type.name \o "Filter"
    IN WithFieldGetter(createObject(FALSE, name, FilterLayout(type, outer, 1), NoOptions, TRUE),
                       FieldGetterFor(outer), name)

(***************************************************************************)
(* The entity types filters are generated for: one or two fields of the    *)
(* scalar kinds, an identifier, an enumeration, lists, and nested objects  *)
(* of one and two levels.                                                  *)
(***************************************************************************)
Color == EnumType("Color")

Address ==
    ObjectType("Address", <<Field("city", NonNull(GraphQLString)), Field("zip", GraphQLInt)>>)

Place ==
    ObjectType("Place",
               <<Field("geo", NonNull(ObjectType("Geo", <<Field("lat", GraphQLFloat),
                                                           Field("kind", EnumType("Kind"))>>))),
                 Field("open", GraphQLBoolean)>>)

FieldTypes ==
    {GraphQLString, NonNull(GraphQLString), ListOf(NonNull(GraphQLString)),
     NonNull(GraphQLInt), GraphQLFloat, GraphQLBoolean, NonNull(GraphQLID),
     Color, NonNull(ListOf(NonNull(Color))),
     Address, NonNull(Place), ListOf(NonNull(Address)),
     ListOf(ListOf(GraphQLString)), NonNull(ListOf(NonNull(ListOf(Address))))}

EntityTypes ==
    {ObjectType(n, <<Field("first", t)>>) : n \in {"Person", "Item"}, t \in FieldTypes}
    \cup {ObjectType("Person", <<Field("first", t1), Field("second", t2)>>) :
              t1 \in FieldTypes, t2 \in FieldTypes}

InitGrammar ==
    /\ entity \in EntityTypes
    /\ grammar = Undef
    /\ IdleFilter
    /\ IdleValidation
    /\ IdleTypes
    /\ IdleRecord
    /\ IdleCalls
    /\ IdleMethods
    /\ IdleCollection

\* createObjectFilter(model.graphQLType)
CreateFilter ==
    /\ grammar = Undef
    /\ grammar' = createObjectFilter(entity, "")
    /\ UNCHANGED <<entity, filterVars, validationVars, typeVars, recordVars, callVars,
                   methodVars, collectionVars>>

NextGrammar == CreateFilter

SpecGrammar == InitGrammar /\ [][NextGrammar]_vars

(***************************************************************************)
(* Properties of the filter grammar.                                       *)
(***************************************************************************)
HasField(fields, name) == \E i \in 1..Len(fields) : fields[i].name = name
FieldNamed(fields, name) == fields[CHOOSE i \in 1..Len(fields) : fields[i].name = name]

ScalarKinds == {GraphQLString, GraphQLInt, GraphQLFloat, GraphQLBoolean}
StandardOps == {"Eq", "Neq", "Gt", "Gte", "Lt", "Lte", "In", "Nin", "Exists"}

\* What the grammar of a kind is to offer: the operators and the type of each.
Offered(kind) == StandardOps \cup (IF kind = GraphQLString THEN {"RegEx"} ELSE {})
OperandType(op, kind) ==
    CASE op = "Exists" -> GraphQLBoolean
      [] op \in {"In", "Nin"} -> ListOf(NonNull(kind))
      [] op = "RegEx" -> GraphQLString
      [] OTHER -> kind

\* The input shape is the grammar of the kind: an input object named after the
\* kind, with exactly the operators offered, each of its type and nullable.
KindGrammar(shape, kind) ==
    /\ shape.k = "input"
    /\ shape.name = kind.name \o "FilterInput"
    /\ Len(getFields(shape)) = Cardinality(Offered(kind))
    /\ {getFields(shape)[i] : i \in 1..Len(getFields(shape))}
           = {Field(op, OperandType(op, kind)) : op \in Offered(kind)}

RECURSIVE KindGrammars(_, _)
\* Every field of a scalar kind or an enumeration, at any depth of the type, has
\* the grammar of its kind in the input shape of the filter.
KindGrammars(type, shape) ==
    \A i \in 1..Len(type.fields) :
        LET name == type.fields[i].name
            fieldType == FieldTypeOf(type.fields[i].type)
        IN IF fieldType \in ScalarKinds \/ fieldType.k = "enum"
           THEN /\ HasField(getFields(shape), name)
                /\ KindGrammar(FieldNamed(getFields(shape), name).type, fieldType)
           ELSE IF fieldType.k = "object"
           THEN /\ HasField(getFields(shape), name)
                /\ KindGrammars(fieldType, FieldNamed(getFields(shape), name).type)
           ELSE ~HasField(getFields(shape), name)

Logical(shape) ==
    /\ HasField(getFields(shape), "And")
    /\ HasField(getFields(shape), "Or")
    /\ FieldNamed(getFields(shape), "And").type = ListOf(NonNull(TypeRef(shape.name)))
    /\ FieldNamed(getFields(shape), "Or").type = ListOf(NonNull(TypeRef(shape.name)))

RECURSIVE NestedPlain(_, _)
\* No filter of a nested object, at any depth, carries And or Or.
NestedPlain(type, shape) ==
    \A i \in 1..Len(type.fields) :
        FieldTypeOf(type.fields[i].type).k = "object" =>
            LET nested == FieldNamed(getFields(shape), type.fields[i].name).type
            IN /\ ~HasField(getFields(nested), "And")
               /\ ~HasField(getFields(nested), "Or")
               /\ NestedPlain(FieldTypeOf(type.fields[i].type), nested)

MaxRegistrations == 2

MethodNames == {"add", "update"}

Violation(type, field) == [type |-> type, field |-> field]

RECURSIVE CheckValue(_, _, _)
RECURSIVE CheckProps(_, _, _, _)

\* The violations of the rules of the properties from key i onwards.
CheckProps(value, props, i, prefix) ==
    IF i > Len(props.kv) THEN <<>>
    ELSE (IF props.kv[i].k = "$$strict" THEN <<>>
          ELSE CheckValue(Get(value, props.kv[i].k), props.kv[i].v, prefix \o props.kv[i].k))
         \o CheckProps(value, props, i + 1, prefix)

\* The violations of one value against the rules of its field.
CheckValue(value, rules, field) ==
    LET rule == IF rules.t = "list" THEN rules.items[1] ELSE rules
        type == Get(rule, "type")
    IN IF value.t \in {"undefined", "null"}
       THEN IF Get(rule, "optional") = JBool(TRUE) THEN <<>> ELSE <<Violation("required", field)>>
       ELSE CASE type = JStr("string") ->
                     IF value.t = "str" THEN <<>> ELSE <<Violation("string", field)>>
              [] type = JStr("array") ->
                     IF value.t = "list" THEN <<>> ELSE <<Violation("array", field)>>
              [] type = JStr("object") ->
                     IF value.t # "obj" THEN <<Violation("object", field)>>
                     ELSE CheckProps(value, OrElse(Get(rule, "properties"), EmptyObj), 1,
                                     field \o ".")
                          \o (IF Get(rule, "strict") = JBool(TRUE)
                                 /\ \E k \in {value.kv[i].k : i \in 1..Len(value.kv)} :
                                        ~HasKey(Get(rule, "properties"), k)
                              THEN <<Violation("objectStrict", field)>> ELSE <<>>)
              [] OTHER -> <<>>

\* validator.validate(item, schema): the list of violations, empty for `true`.
Validate(item, fields) ==
    IF item.t # "obj" THEN <<Violation("object", "")>>
    ELSE CheckProps(item, fields, 1, "")
         \o (IF Get(fields, "$$strict") = JBool(TRUE)
                /\ \E k \in {item.kv[i].k : i \in 1..Len(item.kv)} : ~HasKey(fields, k)
             THEN <<Violation("objectStrict", "")>> ELSE <<>>)

\* get validation of a record: its own rule without properties, strict and type,
\* the rules of the fields, $$strict.
ValidationOf(gql) ==
    Put(Merge(Without(Spread(gql.options.validation), {"properties", "strict", "type"}),
              OrElse(Get(gql.options.validation, "properties"), EmptyObj)),
        "$$strict", JBool(TRUE))

\* get updateValidation of a record
UpdateValidationOf(gql) == convertForUpdate(ValidationOf(gql)).v

\* type.validate(item, forUpdate)
validate(type, item, forUpdate) ==
    Validate(item, IF forUpdate THEN UpdateValidationOf(type) ELSE ValidationOf(type))

\* validateAndThrow checking against the create validation whatever forUpdate is.
validateAndThrowCreate(data, type, forUpdate) ==
    [thrown |-> validate(type, data, FALSE) # <<>>, errors |-> validate(type, data, FALSE)]

\* validateAndThrow(data, type, forUpdate): throws 'bad item: ' with the violations
\* unless validate reported true.
validateAndThrow(data, type, forUpdate) ==
    [thrown |-> validate(type, data, forUpdate) # <<>>,
     errors |-> validate(type, data, forUpdate)]

\* _register(useUpdate, name, args, ..., processor): the registration is created
\* and entered under the name; `handler` names the processor.
_register(ps, ms, useUpdate, name, args, processor) ==
    LET argsType == GqlArgs(args)
        proxy == [name |-> name,
                  args |-> args,
                  argsType |-> argsType,
                  handler |-> processor,
                  useUpdate |-> useUpdate,
                  method |-> [args |-> getFields(IF useUpdate THEN argsType.graphQLUpdateType
                                                 ELSE argsType.graphQLInputType)]]
    IN [proxies |-> Append(ps, proxy),
        methods |-> [ms EXCEPT ![name] = Len(ps) + 1]]

\* resolve running the processor before the arguments are checked.
resolveUnchecked(ps, ms, r, args) ==
    LET checked == validateAndThrow(args, ps[ms[ps[r].name]].argsType, ps[r].useUpdate)
    IN [thrown |-> checked.thrown, errors |-> checked.errors, ran |-> ps[r].handler]

\* method.resolve of registration r: validateAndThrow against the descriptor
\* entered under the name, then the processor.
resolve(ps, ms, r, args) ==
    LET checked == validateAndThrow(args, ps[ms[ps[r].name]].argsType, ps[r].useUpdate)
    IN IF checked.thrown
       THEN [thrown |-> TRUE, errors |-> checked.errors, ran |-> 0]
       ELSE [thrown |-> FALSE, errors |-> <<>>, ran |-> ps[r].handler]

\* Parameter layouts: a required name, and an optional name with a required entity.
ArgLayouts ==
    {<<Entry("name", Build(PlainString))>>,
     <<Entry("name", Build(NullableString)), Entry("data", Build(Entity))>>}

\* Arguments of calls.
CallArgs ==
    {EmptyObj,
     Obj1("name", JStr("a")),
     Obj1("name", JNum(5)),
     Obj2("name", JStr("a"), "extra", JNum(1)),
     Obj1("data", EmptyObj),
     Obj1("data", Obj1("city", JStr("x"))),
     Obj2("name", Null, "data", Obj1("city", JNum(5))),
     Obj2("name", JStr("a"), "data", Obj2("city", JStr("x"), "zip", JNum(1)))}

InitMethods ==
    /\ methods = [n \in MethodNames |-> 0]
    /\ proxies = <<>>
    /\ invocation = NoInvocation
    /\ IdleFilter
    /\ IdleValidation
    /\ IdleTypes
    /\ IdleRecord
    /\ IdleCalls
    /\ IdleGrammar
    /\ IdleCollection

\* manager.register(name, args, resultType, description, processor)
Register ==
    /\ Len(proxies) < MaxRegistrations
    /\ \E name \in MethodNames, args \in ArgLayouts :
          \E r \in {_register(proxies, methods, FALSE, name, args, Len(proxies) + 1)} :
             /\ proxies' = r.proxies
             /\ methods' = r.methods
    /\ UNCHANGED <<invocation, filterVars, validationVars, typeVars, recordVars, callVars,
                   grammarVars, collectionVars>>

\* manager.registerUpdate(name, args, resultType, description, processor)
RegisterUpdate ==
    /\ Len(proxies) < MaxRegistrations
    /\ \E name \in MethodNames, args \in ArgLayouts :
          \E r \in {_register(proxies, methods, TRUE, name, args, Len(proxies) + 1)} :
             /\ proxies' = r.proxies
             /\ methods' = r.methods
    /\ UNCHANGED <<invocation, filterVars, validationVars, typeVars, recordVars, callVars,
                   grammarVars, collectionVars>>

\* GraphQL calls the resolver of a registration, one entered now or one replaced
\* since the schema was built.
Resolve ==
    /\ \E p \in 1..Len(proxies), args \in CallArgs :
          \E r \in {resolve(proxies, methods, p, args)} :
             invocation' = [proxy |-> p, args |-> args,
                            current |-> methods[proxies[p].name] = p,
                            thrown |-> r.thrown, errors |-> r.errors, ran |-> r.ran]
    /\ UNCHANGED <<methods, proxies, filterVars, validationVars, typeVars, recordVars,
                   callVars, grammarVars, collectionVars>>

NextMethods ==
    \/ Register
    \/ RegisterUpdate
    \/ Resolve

SpecMethods == InitMethods /\ [][NextMethods]_vars

(***************************************************************************)
(* Properties of registered operations.                                    *)
(***************************************************************************)
\* The schema an operation's arguments are to pass: the update validation of its
\* parameter list for registerUpdate, the create validation otherwise.
SchemaOf(proxy) ==
    IF proxy.useUpdate
    THEN UpdateValidationOf(GqlArgs(proxy.args))
    ELSE ValidationOf(GqlArgs(proxy.args))

\* C16: when the resolver of a registered operation was called, the handler ran
\* if and only if the arguments have no violation of the schema of the
\* operation's parameter list; otherwise the resolver threw with the list of the
\* violations, and the handler did not run.  The handler that ran is the
\* operation's own.
C16_HandlerAfterValidation ==
    (invocation.proxy # 0 /\ invocation.current) =>
        LET proxy == proxies[invocation.proxy]
            violations == Validate(invocation.args, SchemaOf(proxy))
        IN /\ invocation.ran \in {0, proxy.handler}
           /\ invocation.ran # 0 <=> violations = <<>>
           /\ invocation.thrown <=> violations # <<>>
           /\ invocation.thrown => invocation.errors = violations /\ invocation.ran = 0

\* The arguments pass the create validation of the parameter list but not the
\* update validation, or the other way round.
Discerning(proxy, args) ==
    (Validate(args, ValidationOf(GqlArgs(proxy.args))) = <<>>)
        # (Validate(args, UpdateValidationOf(GqlArgs(proxy.args))) = <<>>)

\* C16 witness: the resolver of an operation entered with registerUpdate was
\* called with arguments that the update validation accepts and the create
\* validation does not, and its handler ran.
C16_Witness ==
    /\ invocation.proxy # 0
    /\ invocation.current
    /\ proxies[invocation.proxy].useUpdate
    /\ Discerning(proxies[invocation.proxy], invocation.args)
    /\ invocation.ran = proxies[invocation.proxy].handler

(***************************************************************************)
(* Properties of the shapes and rules of a composed record (types.ts),     *)
(* checked over SpecTypes.                                                 *)
(***************************************************************************)
NamesOf(type) == {type.fields[i].name : i \in 1..Len(type.fields)}

TypeOfField(type, name) ==
    (CHOOSE f \in {type.fields[i] : i \in 1..Len(type.fields)} : f.name = name).type

\* The descriptor's rule marks the value as optional.
IsNullable(gql) == Truthy(Get(gql.options.validation, "optional"))

\* The sort paths of a record, as a set of strings.
PathsIn(sortable) ==
    IF Truthy(sortable) /\ sortable.t = "list"
    THEN {sortable.items[i].s : i \in 1..Len(sortable.items)} ELSE {}

\* The path is the field or leads below it.
BelongsTo(path, field) ==
    \/ path = field
    \/ /\ Len(path) > Len(field)
       /\ SubSeq(path, 1, Len(field) + 1) = field \o "."

\* C21 as stated: in the update shape of a parameter list a top-level field is
\* nullable exactly when its descriptor is nullable.
C21_ArgsKeepOptionality ==
    tpc = "args" =>
        \A i \in 1..Len(Writable(layout)) :
            TypeOfField(record.graphQLUpdateType, Writable(layout)[i].name).k # "nonnull"
                <=> IsNullable(Writable(layout)[i].gql)

\* The name is in none of the create shape, the update shape, the properties
\* of the record's rule, its validation schema and its update validation.
InNoWriteShape(name) ==
    /\ name \notin NamesOf(record.graphQLInputType)
    /\ name \notin NamesOf(record.graphQLUpdateType)
    /\ ~HasKey(Get(record.options.validation, "properties"), name)
    /\ ~HasKey(ValidationOf(record), name)
    /\ ~HasKey(UpdateValidationOf(record), name)

\* C22: a computed field is in the read shape with its output type and its
\* sort paths are among the record's, and it is in none of the create shape,
\* update shape, validation properties and update validation; an absent
\* layout entry is in no shape, no validation and owns no sort path.
C22_ComputedAndAbsent ==
    Composed =>
        \A i \in 1..Len(layout) :
            /\ layout[i].gql = Undef =>
                  /\ layout[i].name \notin NamesOf(record.graphQLType)
                  /\ InNoWriteShape(layout[i].name)
                  /\ \A p \in PathsIn(record.sortable) : ~BelongsTo(p, layout[i].name)
            /\ (layout[i].gql # Undef /\ layout[i].gql.options.computed) =>
                  /\ layout[i].name \in NamesOf(record.graphQLType)
                  /\ TypeOfField(record.graphQLType, layout[i].name) = outputType(layout[i].gql)
                  /\ PathsIn(JList(SortPathsOf(layout[i].name, layout[i].gql.sortable)))
                        \subseteq PathsIn(record.sortable)
                  /\ InNoWriteShape(layout[i].name)

\* C22 witness: a record composed of a computed sortable field and an absent
\* entry.
C22_Witness ==
    /\ Composed
    /\ Len(layout) = 2
    /\ layout[1].gql # Undef
    /\ layout[1].gql.options.computed
    /\ Truthy(layout[1].gql.sortable)
    /\ layout[1].name \in PathsIn(record.sortable)
    /\ layout[2].gql = Undef

RECURSIVE SameStrictness(_, _)
\* The rule lists a and b agree on strict in their primary rule and in every
\* object rule below it; the items of an array rule are the same.
SameStrictness(a, b) ==
    /\ Get(b.items[1], "strict") = Get(a.items[1], "strict")
    /\ Get(a.items[1], "type") = JStr("array") =>
          Get(b.items[1], "items") = Get(a.items[1], "items")
    /\ Get(a.items[1], "type") = JStr("object") =>
          /\ Keys(Get(b.items[1], "properties")) = Keys(Get(a.items[1], "properties"))
          /\ \A i \in 1..Len(Keys(Get(a.items[1], "properties"))) :
                SameStrictness(Get(a.items[1], "properties").kv[i].v,
                               Get(b.items[1], "properties").kv[i].v)

\* The primary rule of a nested record's field is strict.
StrictObject(rules) ==
    /\ Get(rules.items[1], "type") = JStr("object")
    /\ Get(rules.items[1], "strict") = JBool(TRUE)

\* C23: the rule of a composed record has type 'object', strict true and one
\* properties entry per non-computed present field, whatever the caller's
\* options.validation held; its validation schema has $$strict true, and so
\* has its update validation, where the object rules below keep their strict.
C23_StrictObjectRule ==
    Composed =>
        \A create \in {ValidationOf(record)}, update \in {UpdateValidationOf(record)},
           writable \in {Writable(layout)} :
            /\ Get(record.options.validation, "type") = JStr("object")
            /\ Get(record.options.validation, "strict") = JBool(TRUE)
            /\ Keys(Get(record.options.validation, "properties"))
                  = [i \in 1..Len(writable) |-> writable[i].name]
            /\ Get(create, "$$strict") = JBool(TRUE)
            /\ Get(update, "$$strict") = JBool(TRUE)
            /\ \A i \in 1..Len(writable) :
                  /\ SameStrictness(Get(create, writable[i].name),
                                    Get(update, writable[i].name))
                  /\ writable[i].gql.graphQLType.k = "object" =>
                        StrictObject(Get(update, writable[i].name))

\* C23 witness: a record composed with a caller's rule that sets strict, type
\* and properties, over a layout with a nested record.
C23_Witness ==
    /\ Composed
    /\ handed # Undef
    /\ Get(handed.validation, "strict") = JBool(FALSE)
    /\ Get(handed.validation, "type") = JStr("custom")
    /\ HasKey(handed.validation, "properties")
    /\ \E i \in 1..Len(Writable(layout)) :
          /\ Writable(layout)[i].gql.graphQLType.k = "object"
          /\ StrictObject(Get(UpdateValidationOf(record), Writable(layout)[i].name))
    /\ Get(UpdateValidationOf(record), "$$strict") = JBool(TRUE)

(***************************************************************************)
(* Properties of the dispatch and the naming of createObjectFilter         *)
(* (filter.ts), checked over SpecGrammar.                                  *)
(***************************************************************************)
\* The field types that are the type itself below at most one NonNull, one
\* list and one NonNull, in this order.
Wrappings(type) ==
    {type, NonNull(type), ListOf(type), ListOf(NonNull(type)), NonNull(ListOf(type)),
     NonNull(ListOf(NonNull(type)))}

ObjectKinds == {Address, Place}
EnumKinds == {Color}

\* The grammar shared by all fields of a scalar kind.
SharedGrammar(kind) ==
    CASE kind = GraphQLString -> GqlStringFilter
      [] kind = GraphQLInt -> GqlIntFilter
      [] kind = GraphQLFloat -> GqlFloatFilter
      [] kind = GraphQLBoolean -> GqlBooleanFilter

\* The entry the grammar of the entity has for the field.
GrammarEntry(name) == FieldNamed(getFields(grammar.graphQLInputType), name).type

\* C24: a field whose type is String, Int, Float or Boolean below at most one
\* NonNull, one list and one NonNull has the shared grammar of the kind as a
\* nullable entry; an object type so wrapped has a nullable grammar of its own,
\* generated with the entity as prefix; an enum so wrapped has a nullable
\* grammar of the standard operators on the enum; any other field, an ID or a
\* list of lists, has no entry.
C24_DispatchOnNormalizedType ==
    grammar # Undef =>
        \A i \in 1..Len(entity.fields) :
            \A name \in {entity.fields[i].name}, type \in {entity.fields[i].type} :
                /\ \A kind \in ScalarKinds :
                      type \in Wrappings(kind) =>
                          /\ HasField(getFields(grammar.graphQLInputType), name)
                          /\ GrammarEntry(name) = SharedGrammar(kind).graphQLInputType
                          /\ KindGrammar(GrammarEntry(name), kind)
                /\ \A kind \in ObjectKinds :
                      type \in Wrappings(kind) =>
                          /\ HasField(getFields(grammar.graphQLInputType), name)
                          /\ GrammarEntry(name).k = "input"
                          /\ GrammarEntry(name).name
                                = entity.name \o kind.name \o "FilterInput"
                          /\ KindGrammars(kind, GrammarEntry(name))
                /\ \A kind \in EnumKinds :
                      type \in Wrappings(kind) =>
                          /\ HasField(getFields(grammar.graphQLInputType), name)
                          /\ KindGrammar(GrammarEntry(name), kind)
                /\ (\A kind \in ScalarKinds \cup ObjectKinds \cup EnumKinds :
                        type \notin Wrappings(kind)) =>
                      ~HasField(getFields(grammar.graphQLInputType), name)

\* C24 witness: a filter generated for an entity with a list of lists of
\* strings, which has no entry, and a non-null list of non-null enum values,
\* which has the enum grammar.
C24_Witness ==
    /\ grammar # Undef
    /\ entity = ObjectType("Person",
                           <<Field("first", ListOf(ListOf(GraphQLString))),
                             Field("second", NonNull(ListOf(NonNull(Color))))>>)
    /\ ~HasField(getFields(grammar.graphQLInputType), "first")
    /\ GrammarEntry("second").name = "ColorFilterInput"

\* The input shapes of the four grammars every entity shares.
SharedShapes == {SharedGrammar(kind).graphQLInputType : kind \in ScalarKinds}

RECURSIVE GeneratedBelow(_)
\* The names of the grammars generated for the fields of the shape and below:
\* one for every field that holds a grammar of its own, a nested object's or
\* an enum's, in field order.
GeneratedBelow(shape) ==
    LET fields == getFields(shape)
        Own(i) == IF fields[i].type.k = "input" /\ fields[i].type \notin SharedShapes
                  THEN <<fields[i].type.name>> \o GeneratedBelow(fields[i].type)
                  ELSE <<>>
        Upto[i \in 0..Len(fields)] == IF i = 0 THEN <<>> ELSE Upto[i - 1] \o Own(i)
    IN Upto[Len(fields)]

\* C25 as stated: in the grammar generated for one entity any two of the
\* grammars generated for nested objects and enums have different names.
C25_NamesDistinct ==
    grammar # Undef =>
        \A names \in {GeneratedBelow(grammar.graphQLInputType)} :
            \A i, j \in 1..Len(names) : i # j => names[i] # names[j]

(***************************************************************************)
(* The operators of the grammars (filterTypes.ts) against the cases of     *)
(* toMongoFilter (filter.ts), checked over SpecFilter.                     *)
(***************************************************************************)
LayoutNames(entries) == {entries[i].name : i \in 1..Len(entries)}

\* Every operator name a generated grammar offers for a field of a scalar
\* kind or an enum.
OfferedOps ==
    LayoutNames(createStringFilter)
    \cup LayoutNames(createStandardFilter(FactoryOf(GqlInt)))
    \cup LayoutNames(createStandardFilter(FactoryOf(GqlFloat)))
    \cup LayoutNames(createStandardFilter(FactoryOf(GqlBoolean)))

RECURSIVE GrammarField(_)
\* A value of the grammar of a field: null, an object of offered operators, or
\* a nested object of fields.
GrammarField(v) ==
    \/ v = Null
    \/ /\ v.t = "obj"
       /\ \A i \in 1..Len(v.kv) : v.kv[i].k \in OfferedOps
    \/ /\ v.t = "obj"
       /\ \A i \in 1..Len(v.kv) : v.kv[i].k \in FieldNames /\ GrammarField(v.kv[i].v)

RECURSIVE GrammarValue(_)
\* A value of the grammar of an entity: fields, and And and Or as null or a
\* list of such values.
GrammarValue(v) ==
    /\ v.t = "obj"
    /\ \A i \in 1..Len(v.kv) :
          \/ v.kv[i].k \in FieldNames /\ GrammarField(v.kv[i].v)
          \/ /\ v.kv[i].k \in {"And", "Or"}
             /\ \/ v.kv[i].v = Null
                \/ /\ v.kv[i].v.t = "list"
                   /\ \A j \in 1..Len(v.kv[i].v.items) : GrammarValue(v.kv[i].v.items[j])

RECURSIVE Translated(_, _, _)
\* Every operator given in the filter value v, read at the path `scope`, has
\* its store operator under the path of its field in `out`; every element of
\* a group has its operators in the element of the group of `out`.
Translated(v, scope, out) ==
    \A i \in 1..Len(v.kv) :
        \A key \in {v.kv[i].k}, given \in {v.kv[i].v} :
            IF key \in {"And", "Or"}
            THEN (given # Null /\ Len(given.items) > 0) =>
                     /\ HasKey(out, GroupKey(key))
                     /\ Len(Get(out, GroupKey(key)).items) = Len(given.items)
                     /\ \A j \in 1..Len(given.items) :
                           Translated(given.items[j], scope, Get(out, GroupKey(key)).items[j])
            ELSE IF given = Null THEN TRUE
            ELSE IF \A j \in 1..Len(given.kv) : given.kv[j].k \in OfferedOps
            THEN Len(given.kv) > 0 =>
                     /\ HasKey(out, FullName(scope, key))
                     /\ \A j \in 1..Len(given.kv) :
                           /\ MongoOp(given.kv[j].k) # ""
                           /\ HasKey(Get(out, FullName(scope, key)), MongoOp(given.kv[j].k))
            ELSE Translated(given, FullName(scope, key), out)

\* C26: every operator a generated grammar offers has a case of its own in
\* toMongoFilter, and a filter value of a generated grammar compiles to a
\* predicate that holds the translation of every operator given, under the
\* path of its field, with And and Or as $and and $or.
C26_EveryOperatorTranslated ==
    /\ OfferedOps \subseteq KnownOps
    /\ (outcome # "pending" /\ request # Null /\ request # Undef /\ request.t = "obj"
          /\ GrammarValue(request)) =>
           /\ Compiled
           /\ Translated(request, "", predicate)

\* C26 witness: a pattern match compiled, and a value with a group next to a
\* nested object.
C26_Witness ==
    /\ Compiled
    /\ GrammarValue(request)
    /\ \/ /\ request = Obj1("age", Obj1("RegEx", JStr("vip")))
          /\ predicate = Obj1("age", Obj2("$regex", JStr("vip"), "$options", JStr("i")))
       \/ /\ HasKey(request, "And")
          /\ HasKey(request, "address")
          /\ HasKey(predicate, "$and")
          /\ HasKey(predicate, "address.city")

(***************************************************************************)
(* Properties of records and the descriptors of their layouts, checked     *)
(* over SpecRecord.                                                        *)
(***************************************************************************)
\* The fields of the layout that reach the create shape and the validation.
WritableMembers ==
    {i \in 1..Len(members) : members[i].gql # 0 /\ ~descs[members[i].gql].computed}

\* C27 as stated: for every non-computed field of an entity record, the field
\* is nullable in the create shape exactly when its primary rule in the
\* record's validation is optional, whatever was composed and wrapped before.
C27_ShapeAgreesWithValidation ==
    (rec # 0 /\ ~snapshot.args /\ descs[rec].validation # 0) =>
        \A i \in WritableMembers :
            TypeOfField(descs[rec].graphQLInputType, members[i].name).k # "nonnull"
                <=> Truthy(Get(PrimaryRule(heap, descs[rec].validation, members[i].name),
                               "optional"))

\* The step composes the record of the layout.
Composes == rec = 0 /\ rec' # 0

\* Every descriptor and every cell of the heap is after the step what it was
\* before: rule objects, rule lists, sortable values and wire types.
DescriptorsKept ==
    /\ \A d \in 1..Len(descs) : descs'[d] = descs[d]
    /\ \A a \in 1..Len(heap) : heap'[a] = heap[a]

\* C28: composing an entity or a parameter list leaves every descriptor of the
\* layout as it was, its rule object, sortable value and wire types; the rule
\* with optional: false of a parameter list is a new object.
C28_CompositionKeepsDescriptors ==
    [][Composes => DescriptorsKept]_vars

\* C28 witness: a parameter list whose field has optional: false in the
\* record's properties while the rule of the field's descriptor, a nested
\* entity, has no optional key.
C28_Witness ==
    /\ rec # 0
    /\ snapshot.args
    /\ \E i \in WritableMembers :
          /\ descs[members[i].gql].graphQLType.k = "object"
          /\ ~HasKey(heap[descs[members[i].gql].rule], "optional")
          /\ Get(PrimaryRule(heap, Get(heap[descs[rec].rule], "properties").a,
                             members[i].name), "optional") = JBool(FALSE)

(***************************************************************************)
(* CollectionBase (src/src/collection.ts): the handlers of find and update *)
(* on a collection of documents.  The hooks are what a derived class       *)
(* defines; a handler is served as a whole, and `operation` keeps its      *)
(* arguments, the hooks and store accesses it made in order, and what the  *)
(* store was asked.                                                        *)
(***************************************************************************)
MaxOperations == 2

Doc(id, name) == Obj2("_id", JStr(id), "name", JStr(name))

Ann == Doc("a", "Ann")
Bob == Doc("b", "Bob")

\* The _id values a caller gives: two that exist and one that does not.
Ids == {"a", "b", "c"}

\* beforeUpdate is not defined, leaves the item as it is, or adds a field;
\* afterUpdate is defined or not.
HookSets == [beforeUpdate : {"none", "keeps", "stamps"}, afterUpdate : BOOLEAN]

Ascending == "Ascending"
Descending == "Descending"

SortEntry(field, direction) == Obj2("direction", JStr(direction), "field", JStr(field))

SortEntries ==
    {SortEntry(f, d) : f \in {"name", "age", "_id"}, d \in {Ascending, Descending}}

\* args.sort: absent, empty, one or two entries, and three entries that name
\* a field twice.
SortLists ==
    {Null, JList(<<>>)}
    \cup {JList(<<e>>) : e \in SortEntries}
    \cup {JList(<<e1, e2>>) : e1 \in SortEntries, e2 \in SortEntries}
    \cup {JList(<<SortEntry("name", d1), SortEntry("age", d2), SortEntry("name", d3)>>) :
              d1 \in {Ascending, Descending}, d2 \in {Ascending}, d3 \in {Ascending, Descending}}

FindArgs ==
    [filter : {Null, Obj1("name", Obj1("Eq", JStr("Ann")))},
     page : {Null, JNum(3)},
     pageSize : {Null, JNum(10)},
     sort : SortLists]

UpdateArgs ==
    [_id : Ids,
     data : {EmptyObj, Obj1("name", JStr("Zoe")), Obj2("name", JStr("Zoe"), "age", JNum(7))}]

Event(ev, doc) == [ev |-> ev, doc |-> doc]

Operation(kind, args, trace, item, query, error, result) ==
    [kind |-> kind, args |-> args, trace |-> trace, item |-> item, query |-> query,
     error |-> error, result |-> result]

RECURSIVE SortLoop(_, _, _)
\* for (const sortField of args.sort || []) sort[sortField.field] = ...: the
\* entries from i onwards.
SortLoop(list, i, sort) ==
    IF i > Len(list) THEN sort
    ELSE SortLoop(list, i + 1,
                  Put(sort, Get(list[i], "field").s,
                      IF Get(list[i], "direction") = JStr(Ascending)
                      THEN JNum(1) ELSE JNum(-1)))

\* The sort document of find: the entries of args.sort, then sort._id = 1.
SortDocument(sortArg) ==
    Put(SortLoop(OrElse(sortArg, JList(<<>>)).items, 1, EmptyObj), "_id", JNum(1))

\* The handler of find: what it hands to the store's find, sort, skip and
\* limit.
Find(args) ==
    LET compiled == CompileFilter(args.filter)
        pageSize == OrElse(args.pageSize, JNum(100)).n
        pageOffset == OrElse(args.page, JNum(1)).n - 1
    IN Operation("find", args, <<Event("find", compiled.filter)>>, Undef,
                 [filter |-> compiled.filter, sort |-> SortDocument(args.sort),
                  skip |-> pageOffset * pageSize, limit |-> pageSize],
                 compiled.err, Undef)

\* The item after beforeUpdate(item, _id) ran.
BeforeUpdate(hook, item) ==
    IF hook = "stamps" THEN Put(item, "modified", JNum(1)) ELSE item

\* The document with the given _id, null when there is none.
FindOne(docs, id) ==
    IF \E d \in docs : Get(d, "_id") = JStr(id)
    THEN CHOOSE d \in docs : Get(d, "_id") = JStr(id)
    ELSE Null

\* Object.keys(args.data).length > 0
Writes(data, item) == Len(Keys(data)) > 0

\* The handler of update: the operation as served and the store after it.
Update(docs, hk, args) ==
    LET item == BeforeUpdate(hk.beforeUpdate, Spread(args.data))
        before == IF hk.beforeUpdate = "none" THEN <<>> ELSE <<Event("beforeUpdate", item)>>
        found == FindOne(docs, args._id)
        writes == Writes(args.data, item)
        updated == IF writes /\ found # Null THEN Merge(found, item) ELSE found
        access == IF writes THEN <<Event("findOneAndUpdate", item)>>
                  ELSE <<Event("findOne", Obj1("_id", JStr(args._id)))>>
        after == IF updated # Null /\ hk.afterUpdate
                 THEN <<Event("afterUpdate", updated)>> ELSE <<>>
    IN [docs |-> IF updated = Null THEN docs ELSE (docs \ {found}) \cup {updated},
        served |-> Operation("update", args, before \o access \o after, item, Undef,
                             IF updated = Null THEN "item not found" ELSE "none",
                             updated)]

InitCollection ==
    /\ store = {Ann, Bob}
    /\ hooks \in HookSets
    /\ operation = Undef
    /\ served = 0
    /\ IdleFilter
    /\ IdleValidation
    /\ IdleTypes
    /\ IdleRecord
    /\ IdleCalls
    /\ IdleGrammar
    /\ IdleMethods

\* collection.find.resolver(args)
ServeFind ==
    /\ served < MaxOperations
    /\ \E args \in FindArgs : operation' = Find(args)
    /\ served' = served + 1
    /\ UNCHANGED <<store, hooks, filterVars, validationVars, typeVars, recordVars, callVars,
                   grammarVars, methodVars>>

\* collection.update.resolver(args)
ServeUpdate ==
    /\ served < MaxOperations
    /\ \E args \in UpdateArgs :
          \E u \in {Update(store, hooks, args)} :
             /\ store' = u.docs
             /\ operation' = u.served
    /\ served' = served + 1
    /\ UNCHANGED <<hooks, filterVars, validationVars, typeVars, recordVars, callVars,
                   grammarVars, methodVars>>

NextCollection == ServeFind \/ ServeUpdate

SpecCollection == InitCollection /\ [][NextCollection]_vars

(***************************************************************************)
(* Properties of find and update.                                          *)
(***************************************************************************)
RECURSIVE Effective(_, _)
\* The keys that decide a lexicographic sort by the entries given, in order:
\* an entry whose field was named before never decides, so it is left out.
Effective(entries, seen) ==
    IF Len(entries) = 0 THEN <<>>
    ELSE IF Head(entries)[1] \in seen THEN Effective(Tail(entries), seen)
    ELSE <<Head(entries)>> \o Effective(Tail(entries), seen \cup {Head(entries)[1]})

\* The entries of args.sort as field and direction, followed by _id ascending.
Requested(sortArg) ==
    [i \in 1..Len(OrElse(sortArg, JList(<<>>)).items) |->
        <<Get(OrElse(sortArg, JList(<<>>)).items[i], "field").s,
          IF Get(OrElse(sortArg, JList(<<>>)).items[i], "direction") = JStr(Ascending)
          THEN 1 ELSE -1>>]
    \o <<<<"_id", 1>>>>

\* The keys of the sort document handed to the store, in key order.
Issued(sort) == [i \in 1..Len(sort.kv) |-> <<sort.kv[i].k, sort.kv[i].v.n>>]

FindServed == operation # Undef /\ operation.kind = "find" /\ operation.error = "none"

\* C29 as stated: find sorts by the entries of args.sort in their order, each
\* in its direction, then by _id ascending, whatever the sort list is, one
\* that names _id or names a field twice included.
C29_SortAsRequested ==
    FindServed =>
        Effective(Issued(operation.query.sort), {})
            = Effective(Requested(operation.args.sort), {})

UpdateServed == operation # Undef /\ operation.kind = "update"

EventNames(trace) == [i \in 1..Len(trace) |-> trace[i].ev]

\* The item holds the field and the document holds it with the same value.
Persisted(item, doc) ==
    \A i \in 1..Len(item.kv) : Get(doc, item.kv[i].k) = item.kv[i].v

\* C30 as stated: update runs beforeUpdate, the store write and afterUpdate in
\* this order, and writes with $set exactly the fields the item holds after
\* beforeUpdate ran, so that a field beforeUpdate added is persisted also when
\* the caller's data was empty (an item without a field needs no write); when
\* no document has the _id it fails with 'item not found' and afterUpdate is
\* not invoked.
C30_UpdateWritesItem ==
    UpdateServed =>
        IF FindOne(store, operation.args._id) = Null
        THEN /\ operation.error = "item not found"
             /\ \A i \in 1..Len(operation.trace) : operation.trace[i].ev # "afterUpdate"
        ELSE /\ operation.error = "none"
             /\ \E access \in IF Len(operation.item.kv) > 0 THEN {"findOneAndUpdate"}
                               ELSE {"findOneAndUpdate", "findOne"} :
                   EventNames(operation.trace)
                       = (IF hooks.beforeUpdate = "none" THEN <<>> ELSE <<"beforeUpdate">>)
                         \o <<access>>
                         \o (IF hooks.afterUpdate THEN <<"afterUpdate">> ELSE <<>>)
             /\ \A i \in 1..Len(operation.trace) :
                   operation.trace[i].ev = "findOneAndUpdate" =>
                       operation.trace[i].doc = operation.item
             /\ Persisted(operation.item, FindOne(store, operation.args._id))

====
